---------------------------- MODULE Spec2Model ----------------------------
(***************************************************************************)
(* A model of the studio booking front end (xruner/bbt):                   *)
(*   - the admin time-slot page (src/src/pages/admin/Timeslots.tsx): its   *)
(*     React state, the zod schema that validates the form, the conflict   *)
(*     check evaluated at every render, and its handlers;                  *)
(*   - the booking page (src/src/pages/Booking.tsx): the form, the        *)
(*     date/slot selection, the submission and the availability load;     *)
(*   - fetchAPI (src/src/lib/api.ts): how one request settles for each     *)
(*     thing the network can do to it.                                     *)
(*   - the notifications page (src/unnamed/part_001): the test send;       *)
(*   - the admin appointments page (src/src/pages/MyAppointments.tsx):     *)
(*     filtering, paging, selection and the confirmation toasts.           *)
(* The regex, replace(':', '') and parseInt work on the characters of a     *)
(* string (Chars), so that each is modelled by what it does to the text.   *)
(* A JavaScript number is a set: {n} for the number n and {} for NaN, so   *)
(* that every comparison with NaN is false, as in JavaScript.              *)
(***************************************************************************)
EXTENDS Integers, Sequences, FiniteSets, TLC

VARIABLES
    \* ---- admin time-slot page (Timeslots.tsx:51-61) ----
    activeTab,        \* "regular" | "special"
    regularSlots,     \* sequence of TimeSlot
    specialSlots,     \* sequence of SpecialSlot
    selectedSlot,     \* <<>> (null) or <<slot>>
    isEditing,
    formData,         \* [start, end, enabled]
    errors,           \* set of <<key, message>>
    pendingDeletes,   \* set of confirmation toasts still open (closures)
    now,              \* Date.now(), read when a slot is added
    crashed,          \* the render threw (the page is gone)
    changes,          \* saves, delete requests and drags made so far
    lastEvent,        \* the last handleSave call and what it was given, if
                      \* no other handler ran since
    \* ---- booking page (Booking.tsx:18-37) ----
    bSelectedDate,    \* <<>> (null) or <<date>>
    bSelectedSlot,    \* <<>> (null) or <<key>>
    availableSlots,   \* sequence of [date, slots]
    loadingSlots,
    fetchState,       \* "idle" | "pending" | "done"
    bLastEvent,       \* the handler that ran last and what it was given
    bFormData,        \* [name, email, phone, type]
    bErrors,          \* the message under each field, "" for none
    bRoute,           \* "/booking", or "/my-appointments" once navigated
    bTimers,          \* navigation timers of successful submissions pending
    bNet,             \* <<>>, then <<what the network did to the load>>
    \* ---- inputs of the pure-function checks ----
    pMode, pStart, pEnd, pA, pB, pResult,
    \* ---- one call of fetchAPI (api.ts:12-77) ----
    aEndpoint,        \* the endpoint asked for
    aNet,             \* what the network does to the request
    aResult,          \* <<>> while the call runs, then <<how it settled>>
    \* ---- notifications page (part_001:49-59) ----
    history,          \* sequence of NotificationHistory, newest first
    sendTimers,       \* the send timers pending, in the order they were set
    nNow,             \* Date.now(), read when a send timer fires
    sends,            \* test sends started
    completed,        \* test sends whose timer fired
    \* ---- admin appointments page (MyAppointments.tsx:285-291) ----
    appointments,
    filteredAppointments,
    currentPage,
    searchTerm,
    statusFilter,
    selectedAppointments,   \* sequence of ids
    selectedAppointment,    \* <<>> (null) or <<appointment>>: detail panel
    adminToasts,      \* set of confirmation toasts still open (closures)
    mounted,          \* the effects of the first render have run
    effectPending,    \* a dependency of the filter effect changed
    clicks,           \* clicks and inputs handled so far
    \* ---- inputs of the page-number window ----
    gTotalPages, gCurrentPage, gButtons

tsVars == <<activeTab, regularSlots, specialSlots, selectedSlot, isEditing,
            formData, errors, pendingDeletes, now, crashed, changes,
            lastEvent>>
bkVars == <<bSelectedDate, bSelectedSlot, availableSlots, loadingSlots,
            fetchState, bLastEvent, bFormData, bErrors, bRoute, bTimers,
            bNet>>
pVars  == <<pMode, pStart, pEnd, pA, pB, pResult>>
aVars  == <<aEndpoint, aNet, aResult>>
nVars  == <<history, sendTimers, nNow, sends, completed>>
mVars  == <<appointments, filteredAppointments, currentPage, searchTerm,
            statusFilter, selectedAppointments, selectedAppointment,
            adminToasts, mounted, effectPending, clicks>>
gVars  == <<gTotalPages, gCurrentPage, gButtons>>
vars   == <<tsVars, bkVars, pVars, aVars, nVars, mVars, gVars>>

Null == <<>>
Some(x) == <<x>>

----------------------------------------------------------------------------
(* Text: characters, the regex of the schema, replace and parseInt.        *)

\* The characters of the strings the model uses as time inputs.
Chars(t) ==
    CASE t = ""      -> <<>>
      [] t = "00:00" -> <<"0", "0", ":", "0", "0">>
      [] t = "9:00"  -> <<"9", ":", "0", "0">>
      [] t = "09:00" -> <<"0", "9", ":", "0", "0">>
      [] t = "10:00" -> <<"1", "0", ":", "0", "0">>
      [] t = "11:00" -> <<"1", "1", ":", "0", "0">>
      [] t = "12:00" -> <<"1", "2", ":", "0", "0">>
      [] t = "13:00" -> <<"1", "3", ":", "0", "0">>
      [] t = "14:00" -> <<"1", "4", ":", "0", "0">>
      [] t = "15:00" -> <<"1", "5", ":", "0", "0">>
      [] t = "18:00" -> <<"1", "8", ":", "0", "0">>
      [] t = "23:59" -> <<"2", "3", ":", "5", "9">>
      [] t = "24:00" -> <<"2", "4", ":", "0", "0">>
      [] t = "25:00" -> <<"2", "5", ":", "0", "0">>
      [] t = "9:60"  -> <<"9", ":", "6", "0">>
      [] t = "12:5"  -> <<"1", "2", ":", "5">>
      [] t = "1200"  -> <<"1", "2", "0", "0">>
      [] t = "ab:cd" -> <<"a", "b", ":", "c", "d">>
      [] t = "09:00:30" -> <<"0", "9", ":", "0", "0", ":", "3", "0">>

Digits == {"0", "1", "2", "3", "4", "5", "6", "7", "8", "9"}

DigitVal(c) ==
    CASE c = "0" -> 0 [] c = "1" -> 1 [] c = "2" -> 2 [] c = "3" -> 3
      [] c = "4" -> 4 [] c = "5" -> 5 [] c = "6" -> 6 [] c = "7" -> 7
      [] c = "8" -> 8 [] c = "9" -> 9

\* A variant of the hour group, with the second alternative written 2[0-9].
HourGroupLoose(h) ==
    \/ Len(h) = 1 /\ h[1] \in Digits
    \/ Len(h) = 2 /\ h[1] \in {"0", "1", "2"} /\ h[2] \in Digits

\* The hour group of the regex: ([0-1]?[0-9]|2[0-3])
HourGroup(h) ==
    \/ Len(h) = 1 /\ h[1] \in Digits
    \/ Len(h) = 2 /\ h[1] \in {"0", "1"} /\ h[2] \in Digits
    \/ Len(h) = 2 /\ h[1] = "2" /\ h[2] \in {"0", "1", "2", "3"}

\* /^([0-1]?[0-9]|2[0-3]):[0-5][0-9]$/.test(s)
TimeRegex(s) ==
    \E hl \in {1, 2} :
        /\ Len(s) = hl + 3
        /\ HourGroup(SubSeq(s, 1, hl))
        /\ s[hl + 1] = ":"
        /\ s[hl + 2] \in {"0", "1", "2", "3", "4", "5"}
        /\ s[hl + 3] \in Digits

\* s.replace(':', ''): the first colon is removed, the others stay.
ReplaceColon(s) ==
    IF \E i \in 1..Len(s) : s[i] = ":"
    THEN LET i == CHOOSE k \in 1..Len(s) :
                    s[k] = ":" /\ \A j \in 1..(k - 1) : s[j] # ":"
         IN  SubSeq(s, 1, i - 1) \o SubSeq(s, i + 1, Len(s))
    ELSE s

RECURSIVE DecimalValue(_)
DecimalValue(ds) ==
    IF ds = <<>> THEN 0
    ELSE 10 * DecimalValue(SubSeq(ds, 1, Len(ds) - 1)) + DigitVal(ds[Len(ds)])

\* parseInt(s): the longest prefix of digits, NaN when there is none (the
\* inputs of the model hold no sign and no white space).
parseInt(s) ==
    LET n == CHOOSE k \in 0..Len(s) :
                 /\ \A j \in 1..k : s[j] \in Digits
                 /\ (k < Len(s) => s[k + 1] \notin Digits)
    IN  IF n = 0 THEN {} ELSE {DecimalValue(SubSeq(s, 1, n))}

\* parseInt(t.replace(':', ''))
TimeNumber(t) == parseInt(ReplaceColon(Chars(t)))

\* JavaScript comparisons of two numbers, false when either is NaN.
Gt(a, b) == \E x \in a, y \in b : x > y
Ge(a, b) == \E x \in a, y \in b : x >= y
Lt(a, b) == \E x \in a, y \in b : x < y
Le(a, b) == \E x \in a, y \in b : x <= y

----------------------------------------------------------------------------
(* timeSlotSchema (zod): two string fields each with a regex check, and a  *)
(* refinement on the object.  A failed string check leaves the parse       *)
(* "dirty", not aborted, so the refinement runs on the same data and adds  *)
(* its own issue (with the empty path) to the format issues.               *)

\* The messages of the schema, in English: '无效的开始时间', '无效的结束时间',
\* '结束时间必须晚于开始时间'.
MsgStart == "invalid start time"
MsgEnd   == "invalid end time"
MsgRange == "end must be later than start"

\* A variant of the refinement: end >= start.
RefineEndNotBeforeStart(data) == Ge(TimeNumber(data.end), TimeNumber(data.start))

\* The refinement: parseInt(end) > parseInt(start).
RefineEndAfterStart(data) == Gt(TimeNumber(data.end), TimeNumber(data.start))

\* The issues of timeSlotSchema.parse(data), each <<path[0], message>>; the
\* refinement's path is empty, so its path[0] is undefined.
SchemaIssues(data) ==
    (IF TimeRegex(Chars(data.start)) THEN {} ELSE {<<"start", MsgStart>>})
    \cup (IF TimeRegex(Chars(data.end)) THEN {} ELSE {<<"end", MsgEnd>>})
    \cup (IF RefineEndAfterStart(data) THEN {} ELSE {<<"undefined", MsgRange>>})

----------------------------------------------------------------------------
(* checkConflicts                                                          *)

RECURSIVE FlatSlots(_)
FlatSlots(specials) ==
    IF specials = <<>> THEN <<>>
    ELSE Head(specials).slots \o FlatSlots(Tail(specials))

slotsToCheck(tab, regular, specials) ==
    IF tab = "regular" THEN regular ELSE FlatSlots(specials)

\* A variant of SlotOverlaps: the boundaries taken inclusive.
SlotOverlapsInclusive(newSlot, slot) ==
    LET newStart  == TimeNumber(newSlot.start)
        newEnd    == TimeNumber(newSlot.end)
        slotStart == TimeNumber(slot.start)
        slotEnd   == TimeNumber(slot.end)
    IN  /\ slot.id # newSlot.id
        /\ \/ Ge(newStart, slotStart) /\ Le(newStart, slotEnd)
           \/ Ge(newEnd, slotStart) /\ Le(newEnd, slotEnd)
           \/ Le(newStart, slotStart) /\ Ge(newEnd, slotEnd)

\* A variant of SlotOverlaps: the candidate's own id is not skipped.
SlotOverlapsSelf(newSlot, slot) ==
    LET newStart  == TimeNumber(newSlot.start)
        newEnd    == TimeNumber(newSlot.end)
        slotStart == TimeNumber(slot.start)
        slotEnd   == TimeNumber(slot.end)
    IN  \/ Ge(newStart, slotStart) /\ Lt(newStart, slotEnd)
        \/ Gt(newEnd, slotStart) /\ Le(newEnd, slotEnd)
        \/ Le(newStart, slotStart) /\ Ge(newEnd, slotEnd)

\* A variant of SlotOverlaps: the third test (the candidate covers the pool
\* member) is missing.
SlotOverlapsNoCover(newSlot, slot) ==
    LET newStart  == TimeNumber(newSlot.start)
        newEnd    == TimeNumber(newSlot.end)
        slotStart == TimeNumber(slot.start)
        slotEnd   == TimeNumber(slot.end)
    IN  /\ slot.id # newSlot.id
        /\ \/ Ge(newStart, slotStart) /\ Lt(newStart, slotEnd)
           \/ Gt(newEnd, slotStart) /\ Le(newEnd, slotEnd)

\* The callback given to some(): one pool member against the candidate.
SlotOverlaps(newSlot, slot) ==
    LET newStart  == TimeNumber(newSlot.start)
        newEnd    == TimeNumber(newSlot.end)
        slotStart == TimeNumber(slot.start)
        slotEnd   == TimeNumber(slot.end)
    IN  /\ slot.id # newSlot.id
        /\ \/ Ge(newStart, slotStart) /\ Lt(newStart, slotEnd)
           \/ Gt(newEnd, slotStart) /\ Le(newEnd, slotEnd)
           \/ Le(newStart, slotStart) /\ Ge(newEnd, slotEnd)

checkConflictsIn(newSlot, pool) ==
    \E i \in 1..Len(pool) : SlotOverlaps(newSlot, pool[i])

checkConflicts(newSlot) ==
    checkConflictsIn(newSlot, slotsToCheck(activeTab, regularSlots, specialSlots))

----------------------------------------------------------------------------
(* The admin time-slot page: data                                          *)


mockRegularSlots ==
    << [id |-> "1", start |-> "09:00", end |-> "12:00", enabled |-> TRUE],
       [id |-> "2", start |-> "14:00", end |-> "18:00", enabled |-> TRUE] >>

mockSpecialSlots ==
    << [id |-> "1", date |-> "2025-05-01",
        slots |-> << [id |-> "1-1", start |-> "10:00", end |-> "15:00",
                      enabled |-> TRUE] >>] >>

EmptyForm == [start |-> "", end |-> "", enabled |-> TRUE]

\* What is typed into the time inputs of the form in the model (an input
\* is empty until something is typed or a slot is clicked), and what the
\* checkbox is set to (every slot is loaded enabled; the box stays checked).
FormTimes == {"09:00", "12:00"}
FormEnabled == {TRUE}

\* Date.now() at the first save; every later save reads a later clock.
Epoch == 1000
\* new Date().toISOString().split('T')[0]
Today == "2025-05-20"

\* How many successful saves, delete requests and drags one run makes.
MaxChanges == 2

\* What splice leaves in the list when it removed nothing: undefined.
Undefined == [id |-> "undefined", date |-> "undefined", slots |-> <<>>]

Tabs == {"regular", "special"}

\* lastEvent when the handler that ran last was not handleSave.
NoSave == [op |-> "other", form |-> EmptyForm, sel |-> Null, tab |-> "regular",
           saved |-> FALSE]

----------------------------------------------------------------------------
(* Array helpers                                                           *)

RECURSIVE FilterOutId(_, _)
FilterOutId(slots, id) ==
    IF slots = <<>> THEN <<>>
    ELSE IF Head(slots).id # id
         THEN <<Head(slots)>> \o FilterOutId(Tail(slots), id)
         ELSE FilterOutId(Tail(slots), id)

RECURSIVE NonEmptyGroups(_)
NonEmptyGroups(specials) ==
    IF specials = <<>> THEN <<>>
    ELSE IF Len(Head(specials).slots) > 0
         THEN <<Head(specials)>> \o NonEmptyGroups(Tail(specials))
         ELSE NonEmptyGroups(Tail(specials))

\* slots.map(slot => slot.id === id ? { ...slot, ...form } : slot)
UpdateById(slots, id, form) ==
    [i \in 1..Len(slots) |->
        IF slots[i].id = id
        THEN [id |-> slots[i].id, start |-> form.start, end |-> form.end,
              enabled |-> form.enabled]
        ELSE slots[i]]

\* items.splice(src, 1) then items.splice(dst, 0, item), indices from 0; a
\* source index past the end removes nothing and the item is undefined.
Reorder(items, src, dst, undef) ==
    LET has  == src < Len(items)
        item == IF has THEN items[src + 1] ELSE undef
        rest == IF has
                THEN SubSeq(items, 1, src) \o SubSeq(items, src + 2, Len(items))
                ELSE items
        at   == IF dst > Len(rest) THEN Len(rest) ELSE dst
    IN  SubSeq(rest, 1, at) \o <<item>> \o SubSeq(rest, at + 1, Len(rest))

SeqRange(s) == {s[i] : i \in 1..Len(s)}

----------------------------------------------------------------------------
(* The admin time-slot page: render and handlers                           *)

\* The keys of the errors map the render shows a message for: errors.start
\* under the start input and errors.end under the end input.
RenderedFields == {"start", "end"}

\* The candidate the render hands to checkConflicts (line 429).
RenderCandidate ==
    [id |-> IF selectedSlot = Null THEN "" ELSE selectedSlot[1].id,
     start |-> formData.start, end |-> formData.end,
     enabled |-> formData.enabled]

\* Whether the render shows the conflict warning.
ConflictWarning == checkConflicts(RenderCandidate)

\* The slots the list of the active tab shows.
ShownSlots == SeqRange(slotsToCheck(activeTab, regularSlots, specialSlots))

TsInit ==
    /\ activeTab = "regular"
    /\ regularSlots = mockRegularSlots
    /\ specialSlots = mockSpecialSlots
    /\ selectedSlot = Null
    /\ isEditing = FALSE
    /\ formData = EmptyForm
    /\ errors = {}
    /\ pendingDeletes = {}
    /\ now = Epoch
    /\ crashed = FALSE
    /\ changes = 0
    /\ lastEvent = NoSave

setActiveTab(tab) ==
    /\ ~crashed
    /\ activeTab' = tab
    /\ lastEvent' = NoSave
    /\ UNCHANGED <<regularSlots, specialSlots, selectedSlot, isEditing,
                   formData, errors, pendingDeletes, now, crashed,
                   changes>>
    /\ UNCHANGED <<bkVars, pVars, aVars, nVars, mVars, gVars>>

\* The "add" button of the list and the "cancel" button of the form.
resetForm ==
    /\ ~crashed
    /\ selectedSlot' = Null
    /\ isEditing' = FALSE
    /\ formData' = EmptyForm
    /\ lastEvent' = NoSave
    /\ UNCHANGED <<activeTab, regularSlots, specialSlots, errors,
                   pendingDeletes, now, crashed,
                   changes>>
    /\ UNCHANGED <<bkVars, pVars, aVars, nVars, mVars, gVars>>

clickAdd == resetForm

clickCancel == resetForm

clickSlot(slot) ==
    /\ ~crashed
    /\ slot \in ShownSlots
    /\ selectedSlot' = Some(slot)
    /\ formData' = [start |-> slot.start, end |-> slot.end,
                    enabled |-> slot.enabled]
    /\ isEditing' = TRUE
    /\ lastEvent' = NoSave
    /\ UNCHANGED <<activeTab, regularSlots, specialSlots, errors,
                   pendingDeletes, now, crashed,
                   changes>>
    /\ UNCHANGED <<bkVars, pVars, aVars, nVars, mVars, gVars>>

changeStart(v) ==
    /\ ~crashed
    /\ formData' = [formData EXCEPT !.start = v]
    /\ lastEvent' = NoSave
    /\ UNCHANGED <<activeTab, regularSlots, specialSlots, selectedSlot,
                   isEditing, errors, pendingDeletes, now, crashed,
                   changes>>
    /\ UNCHANGED <<bkVars, pVars, aVars, nVars, mVars, gVars>>

changeEnd(v) ==
    /\ ~crashed
    /\ formData' = [formData EXCEPT !.end = v]
    /\ lastEvent' = NoSave
    /\ UNCHANGED <<activeTab, regularSlots, specialSlots, selectedSlot,
                   isEditing, errors, pendingDeletes, now, crashed,
                   changes>>
    /\ UNCHANGED <<bkVars, pVars, aVars, nVars, mVars, gVars>>

changeEnabled(b) ==
    /\ ~crashed
    /\ formData' = [formData EXCEPT !.enabled = b]
    /\ lastEvent' = NoSave
    /\ UNCHANGED <<activeTab, regularSlots, specialSlots, selectedSlot,
                   isEditing, errors, pendingDeletes, now, crashed,
                   changes>>
    /\ UNCHANGED <<bkVars, pVars, aVars, nVars, mVars, gVars>>

\* A variant of validateForm: the form is never rejected.
validateFormAlways(form) == [ok |-> TRUE, errors |-> {}]

\* validateForm: the schema's verdict and the errors map it sets.  The
\* reduce stores each issue's message under its path[0].
validateForm(form) ==
    LET issues == SchemaIssues([start |-> form.start, end |-> form.end])
    IN  [ok |-> issues = {}, errors |-> issues]

\* The slot handleSave adds: { ...formData, id: Date.now().toString() }
NewSlot(form) ==
    [id |-> ToString(now), start |-> form.start, end |-> form.end,
     enabled |-> form.enabled]

\* The lists after the store step of handleSave (lines 102-135).
SavedRegular ==
    IF isEditing /\ selectedSlot # Null
    THEN IF activeTab = "regular"
         THEN UpdateById(regularSlots, selectedSlot[1].id, formData)
         ELSE regularSlots
    ELSE IF activeTab = "regular"
         THEN Append(regularSlots, NewSlot(formData))
         ELSE regularSlots

SavedSpecial ==
    IF isEditing /\ selectedSlot # Null
    THEN IF activeTab = "regular"
         THEN specialSlots
         ELSE [g \in 1..Len(specialSlots) |->
                 [specialSlots[g] EXCEPT
                    !.slots = UpdateById(specialSlots[g].slots,
                                         selectedSlot[1].id, formData)]]
    ELSE IF activeTab = "regular"
         THEN specialSlots
         ELSE IF Len(specialSlots) > 0
              THEN [g \in 1..Len(specialSlots) |->
                      IF g = 1
                      THEN [specialSlots[g] EXCEPT
                              !.slots = Append(specialSlots[g].slots,
                                               NewSlot(formData))]
                      ELSE specialSlots[g]]
              ELSE << [id |-> ToString(now), date |-> Today,
                       slots |-> <<NewSlot(formData)>>] >>

\* A variant of handleSave: the verdict of validateForm does not stop the
\* store step.
handleSaveUnvalidated ==
    /\ ~crashed
    /\ changes < MaxChanges
    /\ errors' = validateForm(formData).errors
    /\ regularSlots' = SavedRegular
    /\ specialSlots' = SavedSpecial
    /\ now' = IF ~(isEditing /\ selectedSlot # Null) THEN now + 1 ELSE now
    /\ changes' = changes + 1
    /\ selectedSlot' = Null
    /\ isEditing' = FALSE
    /\ formData' = EmptyForm
    /\ lastEvent' = [op |-> "handleSave", form |-> formData,
                     sel |-> selectedSlot, tab |-> activeTab,
                     saved |-> validateForm(formData).ok]
    /\ UNCHANGED <<activeTab, pendingDeletes, crashed>>
    /\ UNCHANGED <<bkVars, pVars, aVars, nVars, mVars, gVars>>

handleSave ==
    /\ ~crashed
    /\ LET v      == validateForm(formData)
           adding == ~(isEditing /\ selectedSlot # Null)
       IN  /\ v.ok => changes < MaxChanges
           /\ errors' = v.errors
           /\ IF ~v.ok
              THEN /\ lastEvent' = [op |-> "handleSave", form |-> formData,
                                    sel |-> selectedSlot, tab |-> activeTab,
                                    saved |-> FALSE]
                   /\ UNCHANGED <<regularSlots, specialSlots, selectedSlot,
                                  isEditing, formData, now, changes>>
              ELSE /\ regularSlots' = SavedRegular
                   /\ specialSlots' = SavedSpecial
                   /\ now' = IF adding THEN now + 1 ELSE now
                   /\ changes' = changes + 1
                   /\ selectedSlot' = Null
                   /\ isEditing' = FALSE
                   /\ formData' = EmptyForm
                   /\ lastEvent' = [op |-> "handleSave", form |-> formData,
                                    sel |-> selectedSlot, tab |-> activeTab,
                                    saved |-> TRUE]
    /\ UNCHANGED <<activeTab, pendingDeletes, crashed>>
    /\ UNCHANGED <<bkVars, pVars, aVars, nVars, mVars, gVars>>

\* handleDelete opens a confirmation toast; its action closes over the
\* tab and the lists of the render in which the trash button was clicked.
\* The toast keeps the list its action reads (the one of that tab).
handleDelete(id) ==
    /\ ~crashed
    /\ id \in {s.id : s \in ShownSlots}
    /\ changes < MaxChanges
    /\ changes' = changes + 1
    /\ pendingDeletes' = pendingDeletes \cup
          {[id |-> id, tab |-> activeTab,
            regular |-> IF activeTab = "regular" THEN regularSlots ELSE <<>>,
            special |-> IF activeTab = "regular" THEN <<>> ELSE specialSlots]}
    /\ lastEvent' = NoSave
    /\ UNCHANGED <<activeTab, regularSlots, specialSlots, selectedSlot,
                   isEditing, formData, errors, now, crashed>>
    /\ UNCHANGED <<bkVars, pVars, aVars, nVars, mVars, gVars>>

\* The toast's "delete" action (lines 148-158).
confirmDelete(t) ==
    /\ ~crashed
    /\ t \in pendingDeletes
    /\ IF t.tab = "regular"
       THEN /\ regularSlots' = FilterOutId(t.regular, t.id)
            /\ UNCHANGED specialSlots
       ELSE /\ specialSlots' = NonEmptyGroups(
                   [g \in 1..Len(t.special) |->
                      [t.special[g] EXCEPT
                         !.slots = FilterOutId(t.special[g].slots, t.id)]])
            /\ UNCHANGED regularSlots
    /\ pendingDeletes' = pendingDeletes \ {t}
    /\ lastEvent' = NoSave
    /\ UNCHANGED <<activeTab, selectedSlot, isEditing, formData, errors, now,
                   crashed, changes>>
    /\ UNCHANGED <<bkVars, pVars, aVars, nVars, mVars, gVars>>

\* The toast's "cancel" button, or the toast timing out.
cancelDelete(t) ==
    /\ ~crashed
    /\ t \in pendingDeletes
    /\ pendingDeletes' = pendingDeletes \ {t}
    /\ lastEvent' = NoSave
    /\ UNCHANGED <<activeTab, regularSlots, specialSlots, selectedSlot,
                   isEditing, formData, errors, now, crashed,
                   changes>>
    /\ UNCHANGED <<bkVars, pVars, aVars, nVars, mVars, gVars>>

\* The source indices a drag can carry: the index prop of a Draggable.  The
\* regular tab numbers the slots of the list; the special tab numbers each
\* slot inside its own date group (line 329).
DragSources ==
    IF activeTab = "regular"
    THEN 0..(Len(regularSlots) - 1)
    ELSE UNION {0..(Len(specialSlots[g].slots) - 1) : g \in 1..Len(specialSlots)}

\* The destination indices: a place among the Draggables shown.
DragDestinations == 0..(Cardinality(ShownSlots) - 1)

\* handleDragEnd with a destination (lines 67-77).  A special list holding
\* undefined makes the next render throw (special.slots of undefined).
handleDragEnd(src, dst) ==
    /\ ~crashed
    /\ src \in DragSources
    /\ dst \in DragDestinations
    /\ changes < MaxChanges
    /\ changes' = changes + 1
    /\ IF activeTab = "regular"
       THEN /\ regularSlots' = Reorder(regularSlots, src, dst, Undefined)
            /\ UNCHANGED <<specialSlots, crashed>>
       ELSE /\ specialSlots' = Reorder(specialSlots, src, dst, Undefined)
            /\ crashed' = (Undefined \in SeqRange(specialSlots'))
            /\ UNCHANGED regularSlots
    /\ lastEvent' = NoSave
    /\ UNCHANGED <<activeTab, selectedSlot, isEditing, formData, errors,
                   pendingDeletes, now>>
    /\ UNCHANGED <<bkVars, pVars, aVars, nVars, mVars, gVars>>

\* handleDragEnd without destination: the early return of line 65.
dragDropped ==
    /\ ~crashed
    /\ lastEvent' = NoSave
    /\ UNCHANGED <<activeTab, regularSlots, specialSlots, selectedSlot,
                   isEditing, formData, errors, pendingDeletes, now, crashed,
                   changes>>
    /\ UNCHANGED <<bkVars, pVars, aVars, nVars, mVars, gVars>>

TsNext ==
    \/ \E tab \in Tabs : setActiveTab(tab)
    \/ clickAdd
    \/ clickCancel
    \/ \E slot \in ShownSlots : clickSlot(slot)
    \/ \E v \in FormTimes : changeStart(v)
    \/ \E v \in FormTimes : changeEnd(v)
    \/ \E b \in FormEnabled : changeEnabled(b)
    \/ handleSave
    \/ \E id \in {s.id : s \in ShownSlots} : handleDelete(id)
    \/ \E t \in pendingDeletes : confirmDelete(t)
    \/ \E t \in pendingDeletes : cancelDelete(t)
    \/ \E src \in DragSources, dst \in DragDestinations : handleDragEnd(src, dst)
    \/ dragDropped

----------------------------------------------------------------------------
(* The pure functions on inputs of their own: the schema through          *)
(* validateForm, and checkConflicts on a pool of one slot.                 *)

PureTimes == {"", "00:00", "9:00", "09:00", "11:00", "12:00", "13:00", "14:00",
              "23:59", "24:00", "25:00", "9:60", "12:5", "1200", "ab:cd",
              "09:00:30"}

\* The times of the two slots compared with each other.
PureSlotTimes == {"9:00", "09:00", "11:00", "12:00", "13:00", "14:00"}

PureNoResult == [done |-> FALSE, ok |-> FALSE, errors |-> {},
                 ab |-> FALSE, ba |-> FALSE]

PIdle ==
    /\ pMode = "off"
    /\ pStart = ""
    /\ pEnd = ""
    /\ pA = mockRegularSlots[1]
    /\ pB = mockRegularSlots[2]
    /\ pResult = PureNoResult

PInit ==
    /\ pResult = PureNoResult
    /\ \/ /\ pMode = "validate"
          /\ pStart \in PureTimes
          /\ pEnd \in PureTimes
          /\ pA = mockRegularSlots[1]
          /\ pB = mockRegularSlots[2]
       \/ /\ pMode = "conflict"
          /\ pStart = ""
          /\ pEnd = ""
          /\ pA \in [id : {"a"}, start : PureSlotTimes, end : PureSlotTimes,
                     enabled : {TRUE}]
          /\ pB \in [id : {"b"}, start : PureSlotTimes, end : PureSlotTimes,
                     enabled : {TRUE}]

PureValidate ==
    /\ pMode = "validate"
    /\ ~pResult.done
    /\ LET v == validateForm([start |-> pStart, end |-> pEnd, enabled |-> TRUE])
       IN  pResult' = [PureNoResult EXCEPT !.done = TRUE, !.ok = v.ok,
                                           !.errors = v.errors]
    /\ UNCHANGED <<pMode, pStart, pEnd, pA, pB>>
    /\ UNCHANGED <<tsVars, bkVars, aVars, nVars, mVars, gVars>>

PureCheckConflicts ==
    /\ pMode = "conflict"
    /\ ~pResult.done
    /\ pResult' = [PureNoResult EXCEPT !.done = TRUE,
                                       !.ab = checkConflictsIn(pA, <<pB>>),
                                       !.ba = checkConflictsIn(pB, <<pA>>)]
    /\ UNCHANGED <<pMode, pStart, pEnd, pA, pB>>
    /\ UNCHANGED <<tsVars, bkVars, aVars, nVars, mVars, gVars>>

PNext == PureValidate \/ PureCheckConflicts

----------------------------------------------------------------------------
(* The booking page: the availability load and the date/slot selection    *)

\* What fetchAPI('/timeslots') returns when the request fails (api.ts:66-73).
DefaultSlots ==
    << [date |-> Today,
        slots |-> << [start |-> "09:00", end |-> "12:00", available |-> TRUE],
                     [start |-> "14:00", end |-> "18:00", available |-> TRUE] >>] >>

\* What the server answers in the model: up to two day entries, each with
\* one of these slot lists.
ServerDates == {"2025-05-20", "2025-05-21"}

ServerSlotLists ==
    { <<>>,
      << [start |-> "09:00", end |-> "12:00", available |-> TRUE] >>,
      << [start |-> "09:00", end |-> "12:00", available |-> FALSE] >>,
      << [start |-> "09:00", end |-> "12:00", available |-> FALSE],
         [start |-> "14:00", end |-> "18:00", available |-> TRUE] >>,
      << [start |-> "09:00", end |-> "12:00", available |-> TRUE],
         [start |-> "14:00", end |-> "18:00", available |-> TRUE] >> }

ServerDays == [date : ServerDates, slots : ServerSlotLists]

\* A day entry with one available slot.
ServerDayOf(date) ==
    [date |-> date,
     slots |-> << [start |-> "09:00", end |-> "12:00", available |-> TRUE] >>]

ServerAnswers ==
    {<<>>} \cup {<<d>> : d \in ServerDays}
           \cup {<<d, e>> : d \in ServerDays, e \in ServerDays}

----------------------------------------------------------------------------
(* fetchAPI (src/src/lib/api.ts).  A text is a sequence of pieces, so that *)
(* includes and startsWith look at what the text holds; a message built    *)
(* from a template is the template's words followed by what it inserts.    *)
(* The messages are given in English.                                      *)

MsgNetworkFailed == <<"network request failed">>
MsgUnreachable   == <<"cannot connect to the API server">>
MsgTimeout       == <<"request timed out, try again later">>
MsgHtmlPage      == <<"the server returned an HTML page instead of JSON">>
MsgRequestFailed == <<"request failed">>

\* `无效的响应类型: ${contentType}`
InvalidTypeMessage(contentType) ==
    <<"invalid response type: ">>
        \o (IF contentType = Null THEN <<"null">> ELSE contentType[1])

\* `请求失败: ${response.status} ${response.statusText}`
StatusMessage(status, statusText) ==
    <<"request failed: ", ToString(status), statusText>>

\* `API请求错误: ${error.message}`
ApiErrorMessage(message) == <<"API request error: ">> \o message

\* An exception: its class, its name and its message.
NoError == [class |-> "none", name |-> "", message |-> <<>>]
NewError(message) == [class |-> "Error", name |-> "Error", message |-> message]
NewTypeError(message) ==
    [class |-> "TypeError", name |-> "TypeError", message |-> message]
NewDOMException(name) ==
    [class |-> "DOMException", name |-> name,
     message |-> <<"The operation was aborted">>]
JsonSyntaxError ==
    [class |-> "SyntaxError", name |-> "SyntaxError",
     message |-> <<"Unexpected token">>]

\* text.includes(piece)
Includes(text, piece) == \E i \in 1..Len(text) : text[i] = piece

\* text.startsWith(piece)
StartsWith(text, piece) == Len(text) > 0 /\ text[1] = piece

\* response.ok
ResponseOk(status) == 200 <= status /\ status <= 299

StatusText(status) ==
    CASE status = 200 -> "OK"
      [] status = 404 -> "Not Found"
      [] status = 500 -> "Internal Server Error"

\* What a parsed JSON body is: a list of day entries, an object that may
\* carry a message, or null.
JsonDays(days) == [tag |-> "days", days |-> days, message |-> Null]
JsonObject(message) == [tag |-> "object", days |-> <<>>, message |-> message]
JsonNull == [tag |-> "null", days |-> <<>>, message |-> Null]

\* The try block of lines 37-39: response.json() fails on a body that is not
\* JSON, reading .message of null fails, and otherwise the Error of line 39
\* is thrown with error.message || '请求失败'.
ThrownInTry(body) ==
    IF body.json = Null THEN JsonSyntaxError
    ELSE IF body.json[1].tag = "null"
         THEN NewTypeError(<<"Cannot read properties of null">>)
         ELSE IF body.json[1].message = Null \/ body.json[1].message = Some(<<>>)
              THEN NewError(MsgRequestFailed)
              ELSE NewError(body.json[1].message[1])

\* A variant of the error of a non-OK response: what the try block threw
\* leaves the handler.
NotOkErrorFromBody(response) == ThrownInTry(response.body)

\* Lines 36-43: whatever the try block throws is caught at line 40, and the
\* error that leaves is the one of line 41.
NotOkError(response) ==
    LET e == ThrownInTry(response.body)
    IN  NewError(StatusMessage(response.status, StatusText(response.status)))

\* Lines 27-34.
ContentTypeError(response) ==
    IF response.contentType = Null
       \/ ~Includes(response.contentType[1], "application/json")
    THEN IF StartsWith(response.body.text, "<!DOCTYPE html>")
         THEN NewError(MsgHtmlPage)
         ELSE NewError(InvalidTypeMessage(response.contentType))
    ELSE NoError

\* What the try block of fetchAPI throws (lines 13-47), NoError when it
\* returns the data.
Thrown(net) ==
    IF net.kind # "response" THEN net.error
    ELSE IF ContentTypeError(net.response).class # "none"
         THEN ContentTypeError(net.response)
         ELSE IF ~ResponseOk(net.response.status)
              THEN NotOkError(net.response)
              ELSE IF net.response.body.json = Null
                   THEN JsonSyntaxError
                   ELSE NoError

\* Lines 49-57.
CatchMessage(error) ==
    IF error.class = "TypeError" /\ Includes(error.message, "Failed to fetch")
    THEN MsgUnreachable
    ELSE IF error.class = "DOMException" /\ error.name = "AbortError"
         THEN MsgTimeout
         ELSE IF error.class \in {"Error", "TypeError", "SyntaxError",
                                  "DOMException"}
              THEN ApiErrorMessage(error.message)
              ELSE MsgNetworkFailed

\* A variant of the test of line 66: every endpoint under /timeslots.
MasksEndpointPrefix(endpoint) ==
    endpoint \in {"/timeslots", "/timeslots/regular"}

\* endpoint === '/timeslots' (line 66)
MasksEndpoint(endpoint) == endpoint = "/timeslots"

\* fetchAPI(endpoint): how the promise settles, the value or the error it
\* settles with, where the value comes from, and the notifications shown.
fetchAPI(endpoint, net) ==
    LET error == Thrown(net)
    IN  IF error.class = "none"
        THEN [kind |-> "resolved", value |-> net.response.body.json[1],
              from |-> "response", error |-> NoError, toasts |-> <<>>]
        ELSE IF MasksEndpoint(endpoint)
             THEN [kind |-> "resolved", value |-> JsonDays(DefaultSlots),
                   from |-> "fallback", error |-> error,
                   toasts |-> <<CatchMessage(error)>>]
             ELSE [kind |-> "rejected", value |-> JsonNull,
                   from |-> "none", error |-> error,
                   toasts |-> <<CatchMessage(error)>>]

\* getAvailableTimeslots (lines 80-82)
getAvailableTimeslots(net) == fetchAPI("/timeslots", net)

\* ---- what the network does to one request ----

\* The message of the TypeError of a failed fetch, by browser.
FetchFailureTexts ==
    { <<"Failed to fetch">>,
      <<"NetworkError when attempting to fetch resource.">>,
      <<"Load failed">> }

\* The name of the DOMException fetch rejects with when the signal of
\* AbortSignal.timeout(8000) fires: TimeoutError by the DOM standard,
\* AbortError where the abort reason is not passed on.
TimeoutNames == {"TimeoutError", "AbortError"}

TextBody(text) == [text |-> text, json |-> Null]
JsonBody(value) == [text |-> <<"json text">>, json |-> Some(value)]

EmptyBody == TextBody(<<>>)

HtmlBodies ==
    { TextBody(<<"<!DOCTYPE html>", "<html>">>),
      TextBody(<<"<!doctype html>", "<html>">>),
      TextBody(<<"<html>">>) }

TextBodies == HtmlBodies \cup {TextBody(<<"Bad Gateway">>), EmptyBody}

ApiDayLists == {<<>>, DefaultSlots, <<ServerDayOf("2025-05-21")>>}

JsonBodies ==
    {JsonBody(JsonDays(d)) : d \in ApiDayLists}
    \cup { JsonBody(JsonObject(Some(<<"slot taken">>))),
           JsonBody(JsonObject(Some(<<>>))),
           JsonBody(JsonObject(Null)),
           JsonBody(JsonNull) }

ContentTypes ==
    { Null,
      Some(<<"text/html">>),
      Some(<<"text/html", "; charset=utf-8">>),
      Some(<<"text/plain">>),
      Some(<<"application/problem+json">>),
      Some(<<"application/json">>),
      Some(<<"application/json", "; charset=utf-8">>) }

Statuses == {200, 404, 500}

NoResponse == [contentType |-> Null, status |-> 0, body |-> EmptyBody]

Unreachable(message) ==
    [kind |-> "unreachable", error |-> NewTypeError(message),
     response |-> NoResponse]

TimedOut(name) ==
    [kind |-> "timeout", error |-> NewDOMException(name),
     response |-> NoResponse]

Responded(contentType, status, body) ==
    [kind |-> "response", error |-> NoError,
     response |-> [contentType |-> contentType, status |-> status,
                   body |-> body]]

ApiNets ==
    {Unreachable(m) : m \in FetchFailureTexts}
    \cup {TimedOut(n) : n \in TimeoutNames}
    \cup {Responded(c, s, b) :
             c \in ContentTypes, s \in Statuses, b \in TextBodies \cup JsonBodies}

Endpoints == {"/timeslots", "/timeslots/regular", "/appointments"}

AIdle ==
    /\ aEndpoint = "/timeslots"
    /\ aNet = Unreachable(<<"Failed to fetch">>)
    /\ aResult = Null

AInit ==
    /\ aEndpoint \in Endpoints
    /\ aNet \in ApiNets
    /\ aResult = Null

\* One call of fetchAPI, from the request to the settled promise.
callFetchAPI ==
    /\ aResult = Null
    /\ aResult' = Some(fetchAPI(aEndpoint, aNet))
    /\ UNCHANGED <<aEndpoint, aNet>>
    /\ UNCHANGED <<tsVars, bkVars, pVars, nVars, mVars, gVars>>

ANext == callFetchAPI

----------------------------------------------------------------------------
(* The booking page: state and handlers                                    *)

\* ---- the booking form and its schema (lines 9-14, 18-24) ----

Fields == {"name", "email", "phone", "type"}

EmptyBookingForm == [name |-> "", email |-> "", phone |-> "", type |-> ""]

\* errors: the message shown under each field, '' for none.
NoFieldErrors == [f \in Fields |-> ""]

\* What the inputs of the form are given in the model.
FieldValues(field) ==
    CASE field = "name"  -> {"A", "Li"}
      [] field = "email" -> {"a@b", "a@b.cn"}
      [] field = "phone" -> {"12345678901", "13800138000"}
      [] field = "type"  -> {"portrait"}

\* The characters of these values.
FieldChars(v) ==
    CASE v = "" -> <<>>
      [] v = "A" -> <<"A">>
      [] v = "Li" -> <<"L", "i">>
      [] v = "a@b" -> <<"a", "@", "b">>
      [] v = "a@b.cn" -> <<"a", "@", "b", ".", "c", "n">>
      [] v = "12345678901" ->
            <<"1", "2", "3", "4", "5", "6", "7", "8", "9", "0", "1">>
      [] v = "13800138000" ->
            <<"1", "3", "8", "0", "0", "1", "3", "8", "0", "0", "0">>
      [] v = "portrait" -> <<"p", "o", "r", "t", "r", "a", "i", "t">>

Letters == {"A", "L", "a", "b", "c", "i", "n", "o", "p", "r", "t"}

\* /^1[3-9]\d{9}$/
PhoneRegex(cs) ==
    /\ Len(cs) = 11
    /\ cs[1] = "1"
    /\ cs[2] \in {"3", "4", "5", "6", "7", "8", "9"}
    /\ \A i \in 3..11 : cs[i] \in Digits

\* One label of the domain and its dot: [A-Z0-9][A-Z0-9\-]*\.
RECURSIVE DomainLabels(_)
DomainLabels(cs) ==
    \/ cs = <<>>
    \/ \E k \in 2..Len(cs) :
          /\ cs[k] = "."
          /\ cs[1] \in Letters \cup Digits
          /\ \A i \in 2..(k - 1) : cs[i] \in Letters \cup Digits \cup {"-"}
          /\ DomainLabels(SubSeq(cs, k + 1, Len(cs)))

\* The regex of z.string().email(), letters in either case:
\* /^(?!\.)(?!.*\.\.)([A-Z0-9_'+\-\.]*)[A-Z0-9_+-]@([A-Z0-9][A-Z0-9\-]*\.)+[A-Z]{2,}$/i
EmailRegex(cs) ==
    /\ Len(cs) > 0 /\ cs[1] # "."
    /\ \A i \in 1..(Len(cs) - 1) : ~(cs[i] = "." /\ cs[i + 1] = ".")
    /\ \E at \in 2..Len(cs) :
          /\ cs[at] = "@"
          /\ \A i \in 1..(at - 2) :
                cs[i] \in Letters \cup Digits \cup {"_", "'", "+", "-", "."}
          /\ cs[at - 1] \in Letters \cup Digits \cup {"_", "+", "-"}
          /\ \E tld \in (at + 1)..Len(cs) :
                /\ Len(cs) - tld + 1 >= 2
                /\ \A i \in tld..Len(cs) : cs[i] \in Letters
                /\ tld - 1 > at + 1
                /\ DomainLabels(SubSeq(cs, at + 1, tld - 1))

BMsgName  == "the name has at least 2 characters"
BMsgEmail == "enter a valid e-mail address"
BMsgPhone == "enter a valid phone number"
BMsgType  == "choose a kind of shooting"

\* The issues of formSchema.parse(formData), each <<path[0], message>>.
FormIssues(form) ==
    (IF Len(FieldChars(form.name)) >= 2 THEN {} ELSE {<<"name", BMsgName>>})
    \cup (IF EmailRegex(FieldChars(form.email)) THEN {} ELSE {<<"email", BMsgEmail>>})
    \cup (IF PhoneRegex(FieldChars(form.phone)) THEN {} ELSE {<<"phone", BMsgPhone>>})
    \cup (IF Len(FieldChars(form.type)) >= 1 THEN {} ELSE {<<"type", BMsgType>>})

\* The reduce of lines 84-87: the message of each issue under its path[0].
ErrorsOf(issues) ==
    [f \in Fields |->
        IF \E e \in issues : e[1] = f
        THEN (CHOOSE e \in issues : e[1] = f)[2]
        ELSE ""]

\* ---- the availability request of the page ----

\* How many navigation timers of successful submissions are pending at once.
MaxTimers == 2

\* One failure of each kind, for the request of the page.
BookingFailures ==
    { Unreachable(<<"Failed to fetch">>),
      TimedOut("TimeoutError"),
      TimedOut("AbortError"),
      Responded(Some(<<"text/html">>), 200,
                TextBody(<<"<!DOCTYPE html>", "<html>">>)),
      Responded(Some(<<"application/json">>), 500,
                JsonBody(JsonObject(Some(<<"slot taken">>)))),
      Responded(Some(<<"application/json">>), 200, TextBody(<<"Bad Gateway">>)) }

BookingNets ==
    BookingFailures
    \cup {Responded(Some(<<"application/json">>), 200, JsonBody(JsonDays(d))) :
             d \in ServerAnswers}

NoBookingEvent ==
    [op |-> "other", date |-> "", hadSlot |-> FALSE, prevDate |-> Null,
     slot |-> "", ok |-> FALSE, toast |-> ""]

BkInit ==
    /\ bSelectedDate = Null
    /\ bSelectedSlot = Null
    /\ availableSlots = <<>>
    /\ loadingSlots = FALSE
    /\ fetchState = "idle"
    /\ bLastEvent = NoBookingEvent
    /\ bFormData = EmptyBookingForm
    /\ bErrors = NoFieldErrors
    /\ bRoute = "/booking"
    /\ bTimers = 0
    /\ bNet = Null

\* daySlot.slots.some(s => s.available)
hasAvailable(daySlot) ==
    \E i \in 1..Len(daySlot.slots) : daySlot.slots[i].available

\* `${slot.start}-${slot.end}`
SlotKey(slot) == slot.start \o "-" \o slot.end

\* availableSlots.find(d => d.date === selectedDate)?.slots, or no list
FoundSlots ==
    IF bSelectedDate # Null
       /\ \E i \in 1..Len(availableSlots) : availableSlots[i].date = bSelectedDate[1]
    THEN availableSlots[CHOOSE i \in 1..Len(availableSlots) :
            /\ availableSlots[i].date = bSelectedDate[1]
            /\ \A j \in 1..(i - 1) : availableSlots[j].date # bSelectedDate[1]].slots
    ELSE <<>>

\* The effect run at mount, up to the await (lines 40-44).
fetchSlots ==
    /\ bRoute = "/booking"
    /\ fetchState = "idle"
    /\ loadingSlots' = TRUE
    /\ fetchState' = "pending"
    /\ bLastEvent' = NoBookingEvent
    /\ UNCHANGED <<bSelectedDate, bSelectedSlot, availableSlots, bFormData,
                   bErrors, bRoute, bTimers, bNet>>
    /\ UNCHANGED <<tsVars, pVars, aVars, nVars, mVars, gVars>>

\* What lines 44-57 store once getAvailableTimeslots settled: the data it
\* resolved with, or the default list of the catch block when it rejected.
LoadedSlots(net) ==
    IF getAvailableTimeslots(net).kind = "resolved"
    THEN getAvailableTimeslots(net).value.days
    ELSE DefaultSlots

\* A variant of fetchSlotsDone without the finally block.
fetchSlotsDoneNoFinally(net) ==
    /\ bRoute = "/booking"
    /\ fetchState = "pending"
    /\ availableSlots' = LoadedSlots(net)
    /\ fetchState' = "done"
    /\ bNet' = Some(net)
    /\ bLastEvent' = NoBookingEvent
    /\ UNCHANGED <<bSelectedDate, bSelectedSlot, loadingSlots, bFormData,
                   bErrors, bRoute, bTimers>>
    /\ UNCHANGED <<tsVars, pVars, aVars, nVars, mVars, gVars>>

\* getAvailableTimeslots settles, then the finally block (lines 44-60).
fetchSlotsDone(net) ==
    /\ bRoute = "/booking"
    /\ fetchState = "pending"
    /\ availableSlots' = LoadedSlots(net)
    /\ loadingSlots' = FALSE
    /\ fetchState' = "done"
    /\ bNet' = Some(net)
    /\ bLastEvent' = NoBookingEvent
    /\ UNCHANGED <<bSelectedDate, bSelectedSlot, bFormData, bErrors, bRoute,
                   bTimers>>
    /\ UNCHANGED <<tsVars, pVars, aVars, nVars, mVars, gVars>>

\* handleInputChange (lines 66-72).
handleInputChange(field, value) ==
    /\ bRoute = "/booking"
    /\ bFormData' = [bFormData EXCEPT ![field] = value]
    /\ bErrors' = IF bErrors[field] # ""
                  THEN [bErrors EXCEPT ![field] = ""]
                  ELSE bErrors
    /\ bLastEvent' = NoBookingEvent
    /\ UNCHANGED <<bSelectedDate, bSelectedSlot, availableSlots, loadingSlots,
                   fetchState, bRoute, bTimers, bNet>>
    /\ UNCHANGED <<tsVars, pVars, aVars, nVars, mVars, gVars>>

\* A variant of validateForm: the selection is not looked at.
validateBookingFormOnly ==
    LET issues == FormIssues(bFormData)
    IN  IF issues # {}
        THEN [ok |-> FALSE, errors |-> ErrorsOf(issues), toast |-> ""]
        ELSE [ok |-> TRUE, errors |-> bErrors, toast |-> ""]

\* validateForm (lines 74-92): the verdict, the errors map afterwards and the
\* notification shown.
validateBooking ==
    LET issues == FormIssues(bFormData)
    IN  IF issues # {}
        THEN [ok |-> FALSE, errors |-> ErrorsOf(issues), toast |-> ""]
        ELSE IF bSelectedDate = Null \/ bSelectedSlot = Null
             THEN [ok |-> FALSE, errors |-> bErrors, toast |-> "choose a time"]
             ELSE [ok |-> TRUE, errors |-> bErrors, toast |-> ""]

\* handleSubmit (lines 94-107): on success the notification and the timer
\* of the navigation; the selection and the form are left as they are.
handleSubmit ==
    /\ bRoute = "/booking"
    /\ validateBooking.ok => bTimers < MaxTimers
    /\ bErrors' = validateBooking.errors
    /\ bTimers' = IF validateBooking.ok THEN bTimers + 1 ELSE bTimers
    /\ bLastEvent' = [NoBookingEvent EXCEPT
                        !.op = "handleSubmit",
                        !.ok = validateBooking.ok,
                        !.toast = IF validateBooking.ok THEN "booked"
                                  ELSE validateBooking.toast]
    /\ UNCHANGED <<bSelectedDate, bSelectedSlot, availableSlots, loadingSlots,
                   fetchState, bFormData, bRoute, bNet>>
    /\ UNCHANGED <<tsVars, pVars, aVars, nVars, mVars, gVars>>

\* The timer of lines 104-106 fires: navigate('/my-appointments').  The
\* page is unmounted and none of its handlers runs any more.
navigateToMyAppointments ==
    /\ bTimers > 0
    /\ bTimers' = bTimers - 1
    /\ bRoute' = "/my-appointments"
    /\ bLastEvent' = NoBookingEvent
    /\ UNCHANGED <<bSelectedDate, bSelectedSlot, availableSlots, loadingSlots,
                   fetchState, bFormData, bErrors, bNet>>
    /\ UNCHANGED <<tsVars, pVars, aVars, nVars, mVars, gVars>>

\* A variant of handleDateSelect: the slot is kept.
handleDateSelectKeepsSlot(date) ==
    /\ bRoute = "/booking"
    /\ \E i \in 1..Len(availableSlots) :
          availableSlots[i].date = date /\ hasAvailable(availableSlots[i])
    /\ bSelectedDate' = Some(date)
    /\ bLastEvent' = [NoBookingEvent EXCEPT !.op = "handleDateSelect",
                                            !.date = date,
                                            !.hadSlot = bSelectedSlot # Null]
    /\ UNCHANGED <<bSelectedSlot, availableSlots, loadingSlots, fetchState,
                   bFormData, bErrors, bRoute, bTimers, bNet>>
    /\ UNCHANGED <<tsVars, pVars, aVars, nVars, mVars, gVars>>

\* A variant of handleDateSelect: the buttons of all days are enabled.
handleDateSelectAnyDay(date) ==
    /\ bRoute = "/booking"
    /\ \E i \in 1..Len(availableSlots) : availableSlots[i].date = date
    /\ bSelectedDate' = Some(date)
    /\ bSelectedSlot' = Null
    /\ bLastEvent' = [NoBookingEvent EXCEPT !.op = "handleDateSelect",
                                            !.date = date,
                                            !.hadSlot = bSelectedSlot # Null]
    /\ UNCHANGED <<availableSlots, loadingSlots, fetchState, bFormData,
                   bErrors, bRoute, bTimers, bNet>>
    /\ UNCHANGED <<tsVars, pVars, aVars, nVars, mVars, gVars>>

\* A click on an enabled day button (lines 109-112, 256, 262).
handleDateSelect(date) ==
    /\ bRoute = "/booking"
    /\ \E i \in 1..Len(availableSlots) :
          availableSlots[i].date = date /\ hasAvailable(availableSlots[i])
    /\ bSelectedDate' = Some(date)
    /\ bSelectedSlot' = Null
    /\ bLastEvent' = [NoBookingEvent EXCEPT !.op = "handleDateSelect",
                                            !.date = date,
                                            !.hadSlot = bSelectedSlot # Null]
    /\ UNCHANGED <<availableSlots, loadingSlots, fetchState, bFormData,
                   bErrors, bRoute, bTimers, bNet>>
    /\ UNCHANGED <<tsVars, pVars, aVars, nVars, mVars, gVars>>

\* A variant of handleSlotSelect: the buttons of all slots are enabled.
handleSlotSelectAny(slot) ==
    /\ bRoute = "/booking"
    /\ bSelectedDate # Null
    /\ \E i \in 1..Len(FoundSlots) : SlotKey(FoundSlots[i]) = slot
    /\ bSelectedSlot' = Some(slot)
    /\ bLastEvent' = [NoBookingEvent EXCEPT !.op = "handleSlotSelect",
                                            !.prevDate = bSelectedDate,
                                            !.slot = slot]
    /\ UNCHANGED <<bSelectedDate, availableSlots, loadingSlots, fetchState,
                   bFormData, bErrors, bRoute, bTimers, bNet>>
    /\ UNCHANGED <<tsVars, pVars, aVars, nVars, mVars, gVars>>

\* A variant of handleSlotSelect: the date is dropped.
handleSlotSelectDropsDate(slot) ==
    /\ bRoute = "/booking"
    /\ bSelectedDate # Null
    /\ \E i \in 1..Len(FoundSlots) :
          FoundSlots[i].available /\ SlotKey(FoundSlots[i]) = slot
    /\ bSelectedSlot' = Some(slot)
    /\ bSelectedDate' = Null
    /\ bLastEvent' = [NoBookingEvent EXCEPT !.op = "handleSlotSelect",
                                            !.prevDate = bSelectedDate,
                                            !.slot = slot]
    /\ UNCHANGED <<availableSlots, loadingSlots, fetchState, bFormData,
                   bErrors, bRoute, bTimers, bNet>>
    /\ UNCHANGED <<tsVars, pVars, aVars, nVars, mVars, gVars>>

\* A click on an enabled slot button of the selected date (lines 114-116,
\* 270, 278-290).
handleSlotSelect(slot) ==
    /\ bRoute = "/booking"
    /\ bSelectedDate # Null
    /\ \E i \in 1..Len(FoundSlots) :
          FoundSlots[i].available /\ SlotKey(FoundSlots[i]) = slot
    /\ bSelectedSlot' = Some(slot)
    /\ bLastEvent' = [NoBookingEvent EXCEPT !.op = "handleSlotSelect",
                                            !.prevDate = bSelectedDate,
                                            !.slot = slot]
    /\ UNCHANGED <<bSelectedDate, availableSlots, loadingSlots, fetchState,
                   bFormData, bErrors, bRoute, bTimers, bNet>>
    /\ UNCHANGED <<tsVars, pVars, aVars, nVars, mVars, gVars>>

BkNext ==
    \/ fetchSlots
    \/ \E net \in BookingNets : fetchSlotsDone(net)
    \/ \E field \in Fields : \E value \in FieldValues(field) :
          handleInputChange(field, value)
    \/ \E date \in ServerDates : handleDateSelect(date)
    \/ \E i \in 1..Len(FoundSlots) : handleSlotSelect(SlotKey(FoundSlots[i]))
    \/ handleSubmit
    \/ navigateToMyAppointments

----------------------------------------------------------------------------
(* The notifications page (src/unnamed/part_001): the test send of a rule  *)
(* and the history it writes to.  The rules stay the mock rules.           *)

mockRules ==
    << [id |-> "1", type |-> "reminder", method |-> "sms", timeBefore |-> 24,
        enabled |-> TRUE],
       [id |-> "2", type |-> "confirmation", method |-> "email",
        timeBefore |-> 2, enabled |-> TRUE],
       [id |-> "3", type |-> "rejection", method |-> "both", timeBefore |-> 1,
        enabled |-> FALSE] >>

\* error is <<>> where the record has none (undefined).
mockHistory ==
    << [id |-> "1", sentAt |-> "2025-05-20 09:00", recipient |-> "138****1234",
        type |-> "reminder", method |-> "sms", status |-> "success",
        error |-> <<>>],
       [id |-> "2", sentAt |-> "2025-05-19 14:30", recipient |-> "user@test.com",
        type |-> "confirmation", method |-> "email", status |-> "success",
        error |-> <<>>],
       [id |-> "3", sentAt |-> "2025-05-18 10:15", recipient |-> "138****5678",
        type |-> "reminder", method |-> "sms", status |-> "failed",
        error |-> <<"sms failed">>] >>

\* How many test sends one run starts.
MaxSends == 3

\* Date.now() when the first send timer fires.
SendEpoch == 5000

NInit ==
    /\ history = mockHistory
    /\ sendTimers = <<>>
    /\ nNow = SendEpoch
    /\ sends = 0
    /\ completed = 0

\* handleTestSend up to setTimeout (lines 134-136, 156): the callback closes
\* over the rule and over history of the render the button was clicked in.
\* Timers of the same delay fire in the order they were set.
handleTestSend(rule) ==
    /\ sends < MaxSends
    /\ sends' = sends + 1
    /\ sendTimers' = Append(sendTimers, [rule |-> rule, history |-> history])
    /\ UNCHANGED <<history, nNow, completed>>
    /\ UNCHANGED <<tsVars, bkVars, pVars, aVars, mVars, gVars>>

\* The record of lines 145-153; the clock is a counter and sentAt its text.
newHistory(rule, isSuccess) ==
    [id |-> ToString(nNow),
     sentAt |-> ToString(nNow),
     recipient |-> IF rule.method = "sms" THEN "138****0000"
                   ELSE "test@example.com",
     type |-> rule.type,
     method |-> rule.method,
     status |-> IF isSuccess THEN "success" ELSE "failed",
     error |-> IF isSuccess THEN <<>> ELSE <<"simulated failure">>]

\* A variant of the timer callback: the record is put in front of the
\* history as it is when the timer fires.
testSendFiresOnCurrent(isSuccess) ==
    /\ sendTimers # <<>>
    /\ history' = <<newHistory(Head(sendTimers).rule, isSuccess)>> \o history
    /\ sendTimers' = Tail(sendTimers)
    /\ completed' = completed + 1
    /\ \E tick \in {0, 1} : nNow' = nNow + tick
    /\ UNCHANGED sends
    /\ UNCHANGED <<tsVars, bkVars, pVars, aVars, mVars, gVars>>

\* The timer callback (lines 136-155): isSuccess is Math.random() > 0.3, and
\* setHistory is given the captured history with the new record in front.
testSendFires(isSuccess) ==
    /\ sendTimers # <<>>
    /\ history' = <<newHistory(Head(sendTimers).rule, isSuccess)>>
                     \o Head(sendTimers).history
    /\ sendTimers' = Tail(sendTimers)
    /\ completed' = completed + 1
    /\ \E tick \in {0, 1} : nNow' = nNow + tick
    /\ UNCHANGED sends
    /\ UNCHANGED <<tsVars, bkVars, pVars, aVars, mVars, gVars>>

NNext ==
    \/ \E i \in 1..Len(mockRules) : handleTestSend(mockRules[i])
    \/ \E isSuccess \in BOOLEAN : testSendFires(isSuccess)

----------------------------------------------------------------------------
(* The admin appointments page (src/src/pages/MyAppointments.tsx, the      *)
(* component Appointments): the list, its filter effect, the selection,    *)
(* the confirmation toasts and the pager.  A text is a sequence of pieces  *)
(* (a digit is a piece of its own); includes() looks for the pieces of the *)
(* term side by side.  The fields shown but never read by a handler (date, *)
(* time, photographer, notes) are left out of an appointment.              *)

PAGE_SIZE == 10

\* generateMockAppointments(50)
MockCount == 50

Min(a, b) == IF a < b THEN a ELSE b

Max(a, b) == IF a > b THEN a ELSE b

\* The decimal digits of a number below 100, one piece each.
DigitsOf(n) ==
    IF n < 10 THEN <<ToString(n)>>
    ELSE <<ToString(n \div 10), ToString(n % 10)>>

\* Stand-ins for '婚纱摄影', '个人写真', '亲子照', '证件照', '商业摄影'.
types == <<"wedding", "portrait", "family", "id photo", "commercial">>

statuses == <<"pending", "confirmed", "rejected", "cancelled">>

\* generateMockAppointments (lines 256-278); '客户' is "customer".  Of what
\* Math.random() can give, the model takes the types and the statuses in
\* turn, and a phone number that counts up.
generateMockAppointments(count) ==
    [k \in 1..count |->
        LET i == k - 1
        IN  [id     |-> "APP" \o ToString(1000 + i),
             name   |-> <<"customer">> \o DigitsOf(i + 1),
             phone  |-> <<"1", "3", "8", "1", "0", "0", "0", "0", "0">>
                           \o DigitsOf(10 + i),
             email  |-> <<"client">> \o DigitsOf(i + 1) \o <<"@example.com">>,
             type   |-> types[(i % 5) + 1],
             status |-> statuses[(i % 4) + 1]]]

\* toLowerCase, piece by piece.
LowerPiece(c) ==
    CASE c = "Client" -> "client"
      [] c = "CLIENT" -> "client"
      [] c = "Wedding" -> "wedding"
      [] OTHER -> c

toLowerCase(text) == [i \in 1..Len(text) |-> LowerPiece(text[i])]

\* text.includes(term)
IncludesText(text, term) ==
    \E at \in 0..(Len(text) - Len(term)) :
        \A j \in 1..Len(term) : text[at + j] = term[j]

RECURSIVE FilterSeq(_, _)
\* items.filter(keep): keep is the set of the elements kept.
FilterSeq(items, keep) ==
    IF items = <<>> THEN <<>>
    ELSE IF Head(items) \in keep
         THEN <<Head(items)>> \o FilterSeq(Tail(items), keep)
         ELSE FilterSeq(Tail(items), keep)

\* The callback of the search filter (lines 307-312).
MatchesTerm(app, term) ==
    \/ IncludesText(toLowerCase(app.name), term)
    \/ IncludesText(app.phone, term)
    \/ IncludesText(toLowerCase(app.email), term)
    \/ IncludesText(toLowerCase(<<app.type>>), term)

\* The result of the filter effect (lines 302-318).
FilterResult(apps, search, filter) ==
    LET term     == toLowerCase(search)
        searched == IF search # <<>>
                    THEN FilterSeq(apps, {a \in SeqRange(apps) :
                                             MatchesTerm(a, term)})
                    ELSE apps
    IN  IF filter # "all"
        THEN FilterSeq(searched, {a \in SeqRange(searched) : a.status = filter})
        ELSE searched

\* What is typed into the search box and chosen in the status select.
SearchTerms == {<<>>, <<"Client", "5">>, <<"zzz">>}

StatusFilters == {"all", "pending"}

\* The rows of the shown page whose controls are clicked, from the top.
RowsClicked == {1, 2}

\* How many clicks and inputs one run of the page handles.
MaxClicks == 4

\* paginatedData (lines 325-328)
paginatedData ==
    SubSeq(filteredAppointments, (currentPage - 1) * PAGE_SIZE + 1,
           Min(currentPage * PAGE_SIZE, Len(filteredAppointments)))

\* totalPages (line 331): Math.ceil(length / PAGE_SIZE)
totalPages == (Len(filteredAppointments) + PAGE_SIZE - 1) \div PAGE_SIZE

\* A variant of pageNum: the window is always centred on the current page.
pageNumCentred(i, total, current) == current - 2 + i

\* pageNum of the button of index i (lines 675-684).
pageNum(i, total, current) ==
    IF total <= 5 THEN i + 1
    ELSE IF current <= 3 THEN i + 1
    ELSE IF current >= total - 2 THEN total - 4 + i
    ELSE current - 2 + i

\* The page-number buttons: Array.from({ length: Math.min(5, totalPages) }).
PageButtons(total, current) ==
    [k \in 1..Min(5, total) |-> pageNum(k - 1, total, current)]

\* The ids of a list of appointments.
IdsOf(apps) == [i \in 1..Len(apps) |-> apps[i].id]

\* prev.map(app => ids.includes(app.id) ? { ...app, status } : app)
SetStatus(apps, ids, status) ==
    [i \in 1..Len(apps) |->
        IF apps[i].id \in ids THEN [apps[i] EXCEPT !.status = status]
        ELSE apps[i]]

\* prev.filter(app => !ids.includes(app.id))
WithoutIds(apps, ids) ==
    FilterSeq(apps, {a \in SeqRange(apps) : a.id \notin ids})

\* The rows clicked in the model.
ClickedRows ==
    {paginatedData[i] : i \in RowsClicked \cap (1..Len(paginatedData))}

\* A confirmation toast: what its action closes over.
Toast(kind, ids) == [kind |-> kind, ids |-> ids]

MInit ==
    /\ appointments = <<>>
    /\ filteredAppointments = <<>>
    /\ currentPage = 1
    /\ searchTerm = <<>>
    /\ statusFilter = "all"
    /\ selectedAppointments = <<>>
    /\ selectedAppointment = Null
    /\ adminToasts = {}
    /\ mounted = FALSE
    /\ effectPending = FALSE
    /\ clicks = 0

\* The effects of the first render (lines 294-298 and 301-322), both run
\* with the state of that render: the mock data is stored, and the filter
\* effect, whose appointments is still the empty list, stores an empty
\* result after it.  appointments changed, so the filter effect runs again.
mountEffects ==
    /\ ~mounted
    /\ mounted' = TRUE
    /\ appointments' = generateMockAppointments(MockCount)
    /\ filteredAppointments' = FilterResult(appointments, searchTerm, statusFilter)
    /\ currentPage' = 1
    /\ effectPending' = TRUE
    /\ UNCHANGED <<searchTerm, statusFilter, selectedAppointments,
                   selectedAppointment, adminToasts, clicks>>
    /\ UNCHANGED <<tsVars, bkVars, pVars, aVars, nVars, gVars>>

\* A variant of the filter effect: the page is left where it is.
filterEffectKeepsPage ==
    /\ mounted /\ effectPending
    /\ filteredAppointments' = FilterResult(appointments, searchTerm, statusFilter)
    /\ effectPending' = FALSE
    /\ UNCHANGED <<appointments, currentPage, searchTerm, statusFilter,
                   selectedAppointments, selectedAppointment, adminToasts,
                   mounted, clicks>>
    /\ UNCHANGED <<tsVars, bkVars, pVars, aVars, nVars, gVars>>

\* The filter effect (lines 301-322), run after the render in which
\* searchTerm, statusFilter or appointments changed and before the next
\* event is handled.
filterEffect ==
    /\ mounted /\ effectPending
    /\ filteredAppointments' = FilterResult(appointments, searchTerm, statusFilter)
    /\ currentPage' = 1
    /\ effectPending' = FALSE
    /\ UNCHANGED <<appointments, searchTerm, statusFilter,
                   selectedAppointments, selectedAppointment, adminToasts,
                   mounted, clicks>>
    /\ UNCHANGED <<tsVars, bkVars, pVars, aVars, nVars, gVars>>

\* The handlers run on a mounted page whose effects have run.
Ready == mounted /\ ~effectPending

\* The detail panel is an overlay on the whole window (lines 719-720): the
\* controls of the page are clicked while it is closed.
PageReady == Ready /\ selectedAppointment = Null

\* The search box (line 466).
changeSearchTerm(term) ==
    /\ PageReady
    /\ clicks < MaxClicks
    /\ clicks' = clicks + 1
    /\ term # searchTerm
    /\ searchTerm' = term
    /\ effectPending' = TRUE
    /\ UNCHANGED <<appointments, filteredAppointments, currentPage,
                   statusFilter, selectedAppointments, selectedAppointment,
                   adminToasts, mounted>>
    /\ UNCHANGED <<tsVars, bkVars, pVars, aVars, nVars, gVars>>

\* The status select (line 474).
changeStatusFilter(filter) ==
    /\ PageReady
    /\ clicks < MaxClicks
    /\ clicks' = clicks + 1
    /\ filter # statusFilter
    /\ statusFilter' = filter
    /\ effectPending' = TRUE
    /\ UNCHANGED <<appointments, filteredAppointments, currentPage,
                   searchTerm, selectedAppointments, selectedAppointment,
                   adminToasts, mounted>>
    /\ UNCHANGED <<tsVars, bkVars, pVars, aVars, nVars, gVars>>

\* handleSelectAppointment (lines 334-340), from the checkbox of a row.
handleSelectAppointment(id) ==
    /\ PageReady
    /\ clicks < MaxClicks
    /\ clicks' = clicks + 1
    /\ id \in {a.id : a \in ClickedRows}
    /\ selectedAppointments' =
          IF id \in SeqRange(selectedAppointments)
          THEN FilterSeq(selectedAppointments,
                         SeqRange(selectedAppointments) \ {id})
          ELSE Append(selectedAppointments, id)
    /\ UNCHANGED <<appointments, filteredAppointments, currentPage,
                   searchTerm, statusFilter, selectedAppointment,
                   adminToasts, mounted, effectPending>>
    /\ UNCHANGED <<tsVars, bkVars, pVars, aVars, nVars, gVars>>

\* The checked attribute of the box in the table head (line 512).
SelectAllChecked ==
    /\ Len(selectedAppointments) > 0
    /\ Len(selectedAppointments) = Len(paginatedData)

\* handleSelectAll (lines 343-349): a click gives the box the other value.
handleSelectAll ==
    /\ PageReady
    /\ clicks < MaxClicks
    /\ clicks' = clicks + 1
    /\ selectedAppointments' = IF ~SelectAllChecked THEN IdsOf(paginatedData)
                               ELSE <<>>
    /\ UNCHANGED <<appointments, filteredAppointments, currentPage,
                   searchTerm, statusFilter, selectedAppointment,
                   adminToasts, mounted, effectPending>>
    /\ UNCHANGED <<tsVars, bkVars, pVars, aVars, nVars, gVars>>

\* handleBatchConfirm and handleBatchDelete (lines 352-377, 380-401): a
\* warning when nothing is selected, else a toast whose action closes over
\* selectedAppointments of this render.
handleBatch(kind) ==
    /\ PageReady
    /\ clicks < MaxClicks
    /\ clicks' = clicks + 1
    /\ IF Len(selectedAppointments) = 0
       THEN UNCHANGED adminToasts
       ELSE adminToasts' = adminToasts \cup
               {Toast(kind, SeqRange(selectedAppointments))}
    /\ UNCHANGED <<appointments, filteredAppointments, currentPage,
                   searchTerm, statusFilter, selectedAppointments,
                   selectedAppointment, mounted, effectPending>>
    /\ UNCHANGED <<tsVars, bkVars, pVars, aVars, nVars, gVars>>

handleBatchConfirm == handleBatch("batchConfirm")

handleBatchDelete == handleBatch("batchDelete")

\* The delete button of a row (lines 580-597): a toast for that appointment.
clickRowDelete(id) ==
    /\ PageReady
    /\ clicks < MaxClicks
    /\ clicks' = clicks + 1
    /\ id \in {a.id : a \in ClickedRows}
    /\ adminToasts' = adminToasts \cup {Toast("rowDelete", {id})}
    /\ UNCHANGED <<appointments, filteredAppointments, currentPage,
                   searchTerm, statusFilter, selectedAppointments,
                   selectedAppointment, mounted, effectPending>>
    /\ UNCHANGED <<tsVars, bkVars, pVars, aVars, nVars, gVars>>

\* A variant of the action of a toast: deleting a row takes its id out of
\* the selection as well.
confirmToastDeselecting(t) ==
    /\ Ready
    /\ clicks < MaxClicks
    /\ clicks' = clicks + 1
    /\ t \in adminToasts
    /\ adminToasts' = adminToasts \ {t}
    /\ appointments' =
          CASE t.kind = "batchConfirm" -> SetStatus(appointments, t.ids, "confirmed")
            [] t.kind = "reject"       -> SetStatus(appointments, t.ids, "rejected")
            [] OTHER                   -> WithoutIds(appointments, t.ids)
    /\ selectedAppointments' =
          IF t.kind \in {"batchConfirm", "batchDelete"} THEN <<>>
          ELSE IF t.kind = "rowDelete"
               THEN FilterSeq(selectedAppointments,
                              SeqRange(selectedAppointments) \ t.ids)
               ELSE selectedAppointments
    /\ selectedAppointment' =
          IF t.kind = "reject" THEN Null ELSE selectedAppointment
    /\ effectPending' = TRUE
    /\ UNCHANGED <<filteredAppointments, currentPage, searchTerm,
                   statusFilter, mounted>>
    /\ UNCHANGED <<tsVars, bkVars, pVars, aVars, nVars, gVars>>

\* The action of a toast (lines 361-371, 389-395, 586-591, 813-823): a
\* functional update of appointments with what the toast closed over.
confirmToast(t) ==
    /\ Ready
    /\ clicks < MaxClicks
    /\ clicks' = clicks + 1
    /\ t \in adminToasts
    /\ adminToasts' = adminToasts \ {t}
    /\ appointments' =
          CASE t.kind = "batchConfirm" -> SetStatus(appointments, t.ids, "confirmed")
            [] t.kind = "reject"       -> SetStatus(appointments, t.ids, "rejected")
            [] OTHER                   -> WithoutIds(appointments, t.ids)
    /\ selectedAppointments' =
          IF t.kind \in {"batchConfirm", "batchDelete"} THEN <<>>
          ELSE selectedAppointments
    /\ selectedAppointment' =
          IF t.kind = "reject" THEN Null ELSE selectedAppointment
    /\ effectPending' = TRUE
    /\ UNCHANGED <<filteredAppointments, currentPage, searchTerm,
                   statusFilter, mounted>>
    /\ UNCHANGED <<tsVars, bkVars, pVars, aVars, nVars, gVars>>

\* The cancel button of a toast, or the toast going away.
cancelToast(t) ==
    /\ Ready
    /\ clicks < MaxClicks
    /\ clicks' = clicks + 1
    /\ t \in adminToasts
    /\ adminToasts' = adminToasts \ {t}
    /\ UNCHANGED <<appointments, filteredAppointments, currentPage,
                   searchTerm, statusFilter, selectedAppointments,
                   selectedAppointment, mounted, effectPending>>
    /\ UNCHANGED <<tsVars, bkVars, pVars, aVars, nVars, gVars>>

\* handleViewDetail (lines 404-406), from a click on a row.
handleViewDetail(appointment) ==
    /\ PageReady
    /\ clicks < MaxClicks
    /\ clicks' = clicks + 1
    /\ appointment \in ClickedRows
    /\ selectedAppointment' = Some(appointment)
    /\ UNCHANGED <<appointments, filteredAppointments, currentPage,
                   searchTerm, statusFilter, selectedAppointments,
                   adminToasts, mounted, effectPending>>
    /\ UNCHANGED <<tsVars, bkVars, pVars, aVars, nVars, gVars>>

\* The close button of the detail panel (line 730).
closeDetail ==
    /\ Ready
    /\ clicks < MaxClicks
    /\ clicks' = clicks + 1
    /\ selectedAppointment # Null
    /\ selectedAppointment' = Null
    /\ UNCHANGED <<appointments, filteredAppointments, currentPage,
                   searchTerm, statusFilter, selectedAppointments,
                   adminToasts, mounted, effectPending>>
    /\ UNCHANGED <<tsVars, bkVars, pVars, aVars, nVars, gVars>>

\* The confirm button of the detail panel (lines 791-804).
confirmDetail ==
    /\ Ready
    /\ clicks < MaxClicks
    /\ clicks' = clicks + 1
    /\ selectedAppointment # Null
    /\ selectedAppointment[1].status # "confirmed"
    /\ appointments' = SetStatus(appointments, {selectedAppointment[1].id},
                                 "confirmed")
    /\ selectedAppointment' = Null
    /\ effectPending' = TRUE
    /\ UNCHANGED <<filteredAppointments, currentPage, searchTerm,
                   statusFilter, selectedAppointments, adminToasts, mounted>>
    /\ UNCHANGED <<tsVars, bkVars, pVars, aVars, nVars, gVars>>

\* The reject button of the detail panel (lines 808-831): a toast.
rejectDetail ==
    /\ Ready
    /\ clicks < MaxClicks
    /\ clicks' = clicks + 1
    /\ selectedAppointment # Null
    /\ selectedAppointment[1].status # "rejected"
    /\ adminToasts' = adminToasts \cup
          {Toast("reject", {selectedAppointment[1].id})}
    /\ UNCHANGED <<appointments, filteredAppointments, currentPage,
                   searchTerm, statusFilter, selectedAppointments,
                   selectedAppointment, mounted, effectPending>>
    /\ UNCHANGED <<tsVars, bkVars, pVars, aVars, nVars, gVars>>

\* The pager is rendered when the filtered list is not empty (line 638).
PagerShown == Len(filteredAppointments) > 0

\* The previous button (lines 642-643, 667-668).
previousPage ==
    /\ PageReady /\ PagerShown
    /\ clicks < MaxClicks
    /\ clicks' = clicks + 1
    /\ currentPage # 1
    /\ currentPage' = Max(currentPage - 1, 1)
    /\ UNCHANGED <<appointments, filteredAppointments, searchTerm,
                   statusFilter, selectedAppointments, selectedAppointment,
                   adminToasts, mounted, effectPending>>
    /\ UNCHANGED <<tsVars, bkVars, pVars, aVars, nVars, gVars>>

\* The next button (lines 649-650, 701-702).
nextPage ==
    /\ PageReady /\ PagerShown
    /\ clicks < MaxClicks
    /\ clicks' = clicks + 1
    /\ currentPage # totalPages
    /\ currentPage' = Min(currentPage + 1, totalPages)
    /\ UNCHANGED <<appointments, filteredAppointments, searchTerm,
                   statusFilter, selectedAppointments, selectedAppointment,
                   adminToasts, mounted, effectPending>>
    /\ UNCHANGED <<tsVars, bkVars, pVars, aVars, nVars, gVars>>

\* A page-number button (line 689).
clickPage(page) ==
    /\ PageReady /\ PagerShown
    /\ clicks < MaxClicks
    /\ clicks' = clicks + 1
    /\ page \in SeqRange(PageButtons(totalPages, currentPage))
    /\ currentPage' = page
    /\ UNCHANGED <<appointments, filteredAppointments, searchTerm,
                   statusFilter, selectedAppointments, selectedAppointment,
                   adminToasts, mounted, effectPending>>
    /\ UNCHANGED <<tsVars, bkVars, pVars, aVars, nVars, gVars>>

MNext ==
    \/ mountEffects
    \/ filterEffect
    \/ \E term \in SearchTerms : changeSearchTerm(term)
    \/ \E filter \in StatusFilters : changeStatusFilter(filter)
    \/ \E a \in ClickedRows : handleSelectAppointment(a.id)
    \/ handleSelectAll
    \/ handleBatchConfirm
    \/ handleBatchDelete
    \/ \E a \in ClickedRows : clickRowDelete(a.id)
    \/ \E t \in adminToasts : confirmToast(t)
    \/ \E t \in adminToasts : cancelToast(t)
    \/ \E a \in ClickedRows : handleViewDetail(a)
    \/ closeDetail
    \/ confirmDetail
    \/ rejectDetail
    \/ previousPage
    \/ nextPage
    \/ \E page \in 1..Max(totalPages, 1) : clickPage(page)

\* ---- the page-number window on inputs of its own ----

\* The largest number of pages the window is computed for.
MaxPages == 14

GIdle ==
    /\ gTotalPages = 1
    /\ gCurrentPage = 1
    /\ gButtons = <<>>

GInit ==
    /\ gTotalPages \in 1..MaxPages
    /\ gCurrentPage \in 1..gTotalPages
    /\ gButtons = <<>>

renderPager ==
    /\ gButtons = <<>>
    /\ gButtons' = PageButtons(gTotalPages, gCurrentPage)
    /\ UNCHANGED <<gTotalPages, gCurrentPage>>
    /\ UNCHANGED <<tsVars, bkVars, pVars, aVars, nVars, mVars>>

GNext == renderPager

----------------------------------------------------------------------------
TimeslotsInit ==
    /\ TsInit /\ BkInit /\ PIdle /\ AIdle
    /\ NInit /\ MInit /\ GIdle

TimeslotsSpec == TimeslotsInit /\ [][TsNext]_vars

BookingInit ==
    /\ TsInit /\ BkInit /\ PIdle /\ AIdle
    /\ NInit /\ MInit /\ GIdle

BookingSpec == BookingInit /\ [][BkNext]_vars

\* The request of the page settles: fetch answers or its 8-second signal
\* fires, and the effect runs at mount.
BookingLiveSpec ==
    /\ BookingInit
    /\ [][BkNext]_vars
    /\ WF_vars(fetchSlots)
    /\ WF_vars(\E net \in BookingNets : fetchSlotsDone(net))

PureInit ==
    /\ TsInit /\ BkInit /\ PInit /\ AIdle
    /\ NInit /\ MInit /\ GIdle

PureSpec == PureInit /\ [][PNext]_vars

ApiInit ==
    /\ TsInit /\ BkInit /\ PIdle /\ AInit
    /\ NInit /\ MInit /\ GIdle

ApiSpec == ApiInit /\ [][ANext]_vars

NotifyInit == TsInit /\ BkInit /\ PIdle /\ AIdle /\ NInit /\ MInit /\ GIdle

NotifySpec == NotifyInit /\ [][NNext]_vars

AdminInit == TsInit /\ BkInit /\ PIdle /\ AIdle /\ NInit /\ MInit /\ GIdle

AdminSpec == AdminInit /\ [][MNext]_vars

PagerInit == TsInit /\ BkInit /\ PIdle /\ AIdle /\ NInit /\ MInit /\ GInit

PagerSpec == PagerInit /\ [][GNext]_vars

----------------------------------------------------------------------------
(* The terms of the specification, defined without the code's operators:   *)
(* a 24-hour HH:MM string, its encoding hours*100+minutes, and the overlap *)
(* of two half-open intervals.                                             *)

\* One or two digits, a colon, two digits.
HasTimeShape(t) ==
    LET cs == Chars(t)
    IN  /\ Len(cs) \in {4, 5}
        /\ cs[Len(cs) - 2] = ":"
        /\ \A i \in 1..Len(cs) : i # Len(cs) - 2 => cs[i] \in Digits

HoursOf(t) == DecimalValue(SubSeq(Chars(t), 1, Len(Chars(t)) - 3))
MinutesOf(t) == DecimalValue(SubSeq(Chars(t), Len(Chars(t)) - 1, Len(Chars(t))))

\* hours*100 + minutes
Encoding(t) == HoursOf(t) * 100 + MinutesOf(t)

\* Hours 0-23 and minutes 00-59.
WellFormedTime(t) == HasTimeShape(t) /\ HoursOf(t) <= 23 /\ MinutesOf(t) <= 59

\* A slot of the data model: well-formed times, the end after the start.
ValidRange(x) ==
    /\ WellFormedTime(x.start)
    /\ WellFormedTime(x.end)
    /\ Encoding(x.end) > Encoding(x.start)

\* [s1, e1) and [s2, e2) overlap: s1 < e2 and s2 < e1.
HalfOpenOverlap(x, y) ==
    /\ Encoding(x.start) < Encoding(y.end)
    /\ Encoding(y.start) < Encoding(x.end)

\* ---- the failures of a request, in the specification's terms ----

\* The media type of the response is application/json.
IsJsonType(contentType) ==
    contentType # Null /\ contentType[1][1] = "application/json"

\* The text is an HTML page: it holds a document type declaration (in any
\* letter case) or the html element.
IsHtmlPage(text) ==
    \E i \in 1..Len(text) : text[i] \in {"<!DOCTYPE html>", "<!doctype html>", "<html>"}

\* NetworkUnreachable, Timeout, UnexpectedContentType, HttpError, a JSON
\* response whose body is not JSON, or none (the request succeeds).
FailureKind(net) ==
    IF net.kind = "unreachable" THEN "NetworkUnreachable"
    ELSE IF net.kind = "timeout" THEN "Timeout"
    ELSE IF ~IsJsonType(net.response.contentType) THEN "UnexpectedContentType"
    ELSE IF net.response.status < 200 \/ net.response.status > 299 THEN "HttpError"
    ELSE IF net.response.body.json = Null THEN "BadBody"
    ELSE "none"

\* One day, the day of the call, with the two available slots 09:00-12:00
\* and 14:00-18:00.
IsDefaultDataset(value) ==
    /\ value.tag = "days"
    /\ Len(value.days) = 1
    /\ value.days[1].date = Today
    /\ value.days[1].slots =
          << [start |-> "09:00", end |-> "12:00", available |-> TRUE],
             [start |-> "14:00", end |-> "18:00", available |-> TRUE] >>

ActivePool == SeqRange(slotsToCheck(activeTab, regularSlots, specialSlots))

AllStoredSlots == SeqRange(regularSlots) \cup SeqRange(FlatSlots(specialSlots))

----------------------------------------------------------------------------
(* Claims                                                                  *)

\* C1 (as stated): whenever the form holds well-formed start and end times,
\* the render's checkConflicts is true iff some slot of the active tab's
\* pool with another id overlaps the candidate as a half-open interval.
\* The code decides otherwise for a candidate whose end is not after its
\* start, which the render hands to the checker unvalidated (C4).
C1_ConflictIffHalfOpenOverlap ==
    (~crashed /\ WellFormedTime(formData.start) /\ WellFormedTime(formData.end))
    => (ConflictWarning <=>
            \E s \in ActivePool :
                s.id # RenderCandidate.id /\ HalfOpenOverlap(RenderCandidate, s))

C3_TouchingSlotsDoNotConflict ==
    (pMode = "conflict" /\ pResult.done /\ ValidRange(pA) /\ ValidRange(pB)
        /\ (Encoding(pA.end) = Encoding(pB.start)
              \/ Encoding(pB.end) = Encoding(pA.start)))
    => (~pResult.ab /\ ~pResult.ba)

C3_Witness ==
    /\ pMode = "conflict" /\ pResult.done
    /\ pA.start = "09:00" /\ pA.end = "12:00"
    /\ pB.start = "12:00" /\ pB.end = "14:00"
    /\ ~pResult.ab /\ ~pResult.ba

\* C4 (as stated): the conflict checker never answers "no conflict" for a
\* candidate whose end is not after its start.  The render evaluates
\* checkConflicts on the raw form data in every state, so the claim says
\* that no state shows such a candidate without the warning.
C4_NoAnswerForInvertedCandidate ==
    ~crashed =>
        ~(/\ Le(TimeNumber(formData.end), TimeNumber(formData.start))
          /\ ~ConflictWarning)

\* C5 (as stated): a slot never conflicts with itself: while a slot is
\* edited and the form's well-formed times overlap (as half-open intervals)
\* no pool member with another id, the conflict warning is not shown.  The
\* pool member with the candidate's id is skipped by the code, but the
\* render hands the form to the checker unvalidated (C4), and for a range
\* whose end is not after its start the code's test differs from the
\* half-open overlap (C1).
C5_NoSelfConflict ==
    (/\ ~crashed /\ isEditing /\ selectedSlot # Null
     /\ WellFormedTime(formData.start) /\ WellFormedTime(formData.end)
     /\ \A s \in ActivePool :
            s.id # selectedSlot[1].id => ~HalfOpenOverlap(RenderCandidate, s))
    => ~ConflictWarning

\* The exclusion of the candidate's own id, for a form with end > start: the
\* warning is not shown when no pool member with another id overlaps.
NoSelfConflictForValidRange ==
    (/\ ~crashed /\ isEditing /\ selectedSlot # Null
     /\ ValidRange(formData)
     /\ \A s \in ActivePool :
            s.id # selectedSlot[1].id => ~HalfOpenOverlap(RenderCandidate, s))
    => ~ConflictWarning

\* C6 (as stated): after handleSave ran on a form with well-formed times and
\* end > start, validation has succeeded and the list of the active tab
\* holds a slot with the form's values.
C6_ValidPairIsStored ==
    (lastEvent.op = "handleSave" /\ ValidRange(lastEvent.form))
    => /\ lastEvent.saved
       /\ errors = {}
       /\ \E s \in SeqRange(slotsToCheck(lastEvent.tab, regularSlots,
                                         specialSlots)) :
             /\ s.start = lastEvent.form.start
             /\ s.end = lastEvent.form.end
             /\ s.enabled = lastEvent.form.enabled

\* C7: for every pair of times (one or two digits, a colon, two digits)
\* whose end is not after its start under hours*100+minutes, validation
\* fails and reports the range error.
C7_RangeErrorWhenEndNotAfterStart ==
    (pMode = "validate" /\ pResult.done
        /\ HasTimeShape(pStart) /\ HasTimeShape(pEnd)
        /\ Encoding(pEnd) <= Encoding(pStart))
    => (~pResult.ok /\ \E e \in pResult.errors : e[2] = MsgRange)

C7_Witness ==
    /\ pMode = "validate" /\ pResult.done
    /\ pStart = "12:00" /\ pEnd = "09:00"
    /\ pResult.errors = {<<"undefined", MsgRange>>}

\* C8: whenever start or end is not a 24-hour HH:MM string, validation fails
\* and reports the format error of each such field.
C8_FormatErrorWhenMalformed ==
    (pMode = "validate" /\ pResult.done)
    => /\ ~WellFormedTime(pStart) => (~pResult.ok /\ <<"start", MsgStart>> \in pResult.errors)
       /\ ~WellFormedTime(pEnd) => (~pResult.ok /\ <<"end", MsgEnd>> \in pResult.errors)

C8_Witness ==
    /\ pMode = "validate" /\ pResult.done
    /\ pStart = "25:00" /\ pEnd = "9:60"
    /\ <<"start", MsgStart>> \in pResult.errors
    /\ <<"end", MsgEnd>> \in pResult.errors

\* C9: in every reachable state of the admin time-slot page every slot of
\* regularSlots and of every special-date group has well-formed times with
\* end > start under hours*100+minutes.
C9_StoredSlotsEndAfterStart ==
    \A s \in AllStoredSlots : ValidRange(s)

\* A slot was added by handleSave and a mock slot was deleted or edited.
C9_Witness ==
    /\ \E s \in AllStoredSlots : s.id = ToString(Epoch)
    /\ \E i \in 1..Len(mockRegularSlots) :
          mockRegularSlots[i] \notin SeqRange(regularSlots)

\* C10: on the booking page, selecting a date d from any selection state
\* leaves selectedDate = d and selectedSlot = none, also when d was the
\* selected date already.
C10_DateSelectClearsSlot ==
    bLastEvent.op = "handleDateSelect"
    => (bSelectedDate = Some(bLastEvent.date) /\ bSelectedSlot = Null)

\* A date was selected while a slot was chosen.
C10_Witness ==
    /\ bLastEvent.op = "handleDateSelect"
    /\ bLastEvent.hadSlot
    /\ bSelectedDate = Some(bLastEvent.date)
    /\ bSelectedSlot = Null


\* C11: in every reachable state of the booking page a selected slot
\* belongs to the selected date: a date is selected, and the slot list the
\* page finds for it holds an available slot with the selected key.
C11_SelectedSlotBelongsToSelectedDate ==
    bSelectedSlot # Null
    => /\ bSelectedDate # Null
       /\ \E i \in 1..Len(FoundSlots) :
             /\ FoundSlots[i].start \o "-" \o FoundSlots[i].end = bSelectedSlot[1]
             /\ FoundSlots[i].available = TRUE

\* A slot is selected on a day that also has an unavailable slot.
C11_Witness ==
    /\ bSelectedSlot # Null
    /\ bSelectedDate # Null
    /\ Len(FoundSlots) = 2
    /\ ~FoundSlots[1].available
    /\ bSelectedSlot = Some("14:00-18:00")

\* C12: handleSlotSelect(s) runs only when a date is selected; afterwards
\* the selected date is the one from before and the selected slot is s.
C12_SlotSelectKeepsDate ==
    bLastEvent.op = "handleSlotSelect"
    => /\ bLastEvent.prevDate # Null
       /\ bSelectedDate = bLastEvent.prevDate
       /\ bSelectedSlot = Some(bLastEvent.slot)

\* The second slot of a day was chosen.
C12_Witness ==
    /\ bLastEvent.op = "handleSlotSelect"
    /\ bLastEvent.slot = "14:00-18:00"
    /\ bSelectedDate = Some("2025-05-21")
    /\ bSelectedSlot = Some("14:00-18:00")

\* C13 (as stated): after a successful handleSubmit neither a date nor a
\* slot is selected.  handleSubmit shows the notification and starts the
\* timer of the navigation; it sets neither selectedDate nor selectedSlot.
C13_SubmitResetsSelection ==
    (bLastEvent.op = "handleSubmit" /\ bLastEvent.ok)
    => (bSelectedDate = Null /\ bSelectedSlot = Null)

\* The selected date names one day entry only.
DatesDistinct ==
    \A i, j \in 1..Len(availableSlots) :
        availableSlots[i].date = availableSlots[j].date => i = j

\* C14 (as stated): a day can be selected only if one of its slots is
\* available, so the day entry of the selected date, whose slots the page
\* shows, is never one without an available slot (nor one without slots).
\* The page knows the selected day by its date only: of two entries with
\* one date the button of the second selects the date and the slots of
\* the first are shown.
C14_SelectedDayHasAvailableSlot ==
    bSelectedDate # Null
    => \E i \in 1..Len(FoundSlots) : FoundSlots[i].available = TRUE

\* The same when no date occurs twice in the list.
SelectedDayHasAvailableSlotForDistinctDates ==
    DatesDistinct => C14_SelectedDayHasAvailableSlot

\* C15: on /timeslots every failure of the request is masked: the call
\* resolves with the default dataset and shows one error notification; on
\* every other endpoint the same failure rejects to the caller (and shows
\* one error notification).
C15_FailuresMaskedOnTimeslotsOnly ==
    (aResult # Null /\ FailureKind(aNet) # "none")
    => /\ Len(aResult[1].toasts) = 1
       /\ aEndpoint = "/timeslots"
             => (aResult[1].kind = "resolved" /\ IsDefaultDataset(aResult[1].value))
       /\ aEndpoint # "/timeslots" => aResult[1].kind = "rejected"

\* An HTTP error on /timeslots, answered with the default dataset.
C15_Witness ==
    /\ aResult # Null
    /\ aEndpoint = "/timeslots"
    /\ FailureKind(aNet) = "HttpError"
    /\ aResult[1].kind = "resolved"
    /\ aResult[1].from = "fallback"
    /\ Len(aResult[1].toasts) = 1

\* C16 (as stated): a request that exceeds the timeout shows the timeout
\* notification, and on /timeslots the default dataset is returned with it.
\* The code tests the name AbortError; the exception of a signal made by
\* AbortSignal.timeout is named TimeoutError, and gets the notification of
\* any other Error.
C16_TimeoutHasItsOwnNotification ==
    (aResult # Null /\ FailureKind(aNet) = "Timeout")
    => /\ aResult[1].toasts = <<MsgTimeout>>
       /\ aEndpoint = "/timeslots"
             => (aResult[1].kind = "resolved" /\ IsDefaultDataset(aResult[1].value))

\* C17 (as stated): a response whose content type is missing or is not
\* application/json raises an error, its body is never the value returned,
\* and the error is the 'HTML page' one for a body that is an HTML page and
\* the 'invalid response type' one for any other body, whatever the status.
\* The code takes a body for an HTML page only when it starts with
\* '<!DOCTYPE html>' in exactly this spelling.
C17_NonJsonResponseIsRejected ==
    (aResult # Null /\ FailureKind(aNet) = "UnexpectedContentType")
    => /\ aResult[1].from # "response"
       /\ aResult[1].error.class = "Error"
       /\ aResult[1].error.message =
             IF IsHtmlPage(aNet.response.body.text)
             THEN MsgHtmlPage
             ELSE InvalidTypeMessage(aNet.response.contentType)
       /\ aResult[1].toasts = <<ApiErrorMessage(aResult[1].error.message)>>

\* C18: for a JSON response with a status that is not OK, whatever the
\* body, the error raised is the one that names the status, the
\* notification shown is made from it, and the body is not the value
\* returned.
C18_HttpErrorNamesTheStatus ==
    (aResult # Null /\ FailureKind(aNet) = "HttpError")
    => /\ aResult[1].error.class = "Error"
       /\ aResult[1].error.message =
             <<"request failed: ", ToString(aNet.response.status),
               StatusText(aNet.response.status)>>
       /\ aResult[1].toasts = <<ApiErrorMessage(aResult[1].error.message)>>
       /\ aResult[1].from # "response"

\* A 500 whose JSON body carries a message of its own.
C18_Witness ==
    /\ aResult # Null
    /\ FailureKind(aNet) = "HttpError"
    /\ aNet.response.status = 500
    /\ aNet.response.body.json = Some(JsonObject(Some(<<"slot taken">>)))
    /\ aResult[1].kind = "rejected"
    /\ Includes(aResult[1].error.message, "500")

\* C19: whatever the availability request does (success, unreachable,
\* timeout, bad content type, HTTP error), the load ends: from some point on
\* loadingSlots is false and availableSlots holds the fetched list or the
\* default list.
C19_LoadEnds ==
    <>[](/\ ~loadingSlots
         /\ bNet # Null
         /\ availableSlots =
               IF FailureKind(bNet[1]) = "none"
               THEN bNet[1].response.body.json[1].days
               ELSE DefaultSlots)

\* The request timed out and the page holds the default list.
C19_Witness ==
    /\ bNet # Null
    /\ FailureKind(bNet[1]) = "Timeout"
    /\ ~loadingSlots
    /\ fetchState = "done"
    /\ availableSlots = DefaultSlots

\* C20 (as stated): the confirmation of a delete request removes the slot
\* with the request's id, and no other, from the list as it stands at the
\* click, and leaves the list of the other tab alone; a cancelled request
\* removes nothing.  The handler of the confirmation filters the list of
\* the render that opened the notification, so what was saved in between is
\* undone by the confirmation.
C20_ConfirmRemovesExactlyThatSlot ==
    [][\A t \in pendingDeletes :
          /\ (confirmDelete(t) /\ t.tab = "regular")
                => /\ SeqRange(regularSlots') =
                         {s \in SeqRange(regularSlots) : s.id # t.id}
                   /\ specialSlots' = specialSlots
          /\ (confirmDelete(t) /\ t.tab = "special")
                => /\ SeqRange(FlatSlots(specialSlots')) =
                         {s \in SeqRange(FlatSlots(specialSlots)) : s.id # t.id}
                   /\ regularSlots' = regularSlots
          /\ cancelDelete(t)
                => (regularSlots' = regularSlots /\ specialSlots' = specialSlots)
      ]_vars

\* The same for a request confirmed while the list is still the one of the
\* render that opened the notification.
ConfirmRemovesThatSlotFromUnchangedList ==
    [][\A t \in pendingDeletes :
          (/\ confirmDelete(t)
           /\ t.tab = "regular" => t.regular = regularSlots
           /\ t.tab = "special" => t.special = specialSlots)
          => /\ t.tab = "regular" =>
                   /\ SeqRange(regularSlots') =
                         {s \in SeqRange(regularSlots) : s.id # t.id}
                   /\ specialSlots' = specialSlots
             /\ t.tab = "special" =>
                   /\ SeqRange(FlatSlots(specialSlots')) =
                         {s \in SeqRange(FlatSlots(specialSlots)) : s.id # t.id}
                   /\ regularSlots' = regularSlots
      ]_vars

----------------------------------------------------------------------------
(* Terms of the claims on reordering                                       *)

\* items without the element at index i (from 0).
RemoveAt(items, i) ==
    SubSeq(items, 1, i) \o SubSeq(items, i + 2, Len(items))

\* The two lists hold the same elements, each as many times.
SameElements(a, b) ==
    /\ Len(a) = Len(b)
    /\ \A x \in SeqRange(a) \cup SeqRange(b) :
          Cardinality({i \in 1..Len(a) : a[i] = x})
             = Cardinality({i \in 1..Len(b) : b[i] = x})

\* after is before with the element of index src moved to index dst.
MovedFromTo(before, after, src, dst) ==
    /\ src < Len(before)
    /\ dst < Len(after)
    /\ after[dst + 1] = before[src + 1]
    /\ RemoveAt(after, dst) = RemoveAt(before, src)

GroupsNonEmpty(specials) ==
    \A g \in 1..Len(specials) : Len(specials[g].slots) > 0

\* C21 (as stated): whenever validateForm returned false in handleSave, the
\* errors map holds a message under 'start' or 'end', the keys the render
\* shows.  The issue of the schema's refine has an empty path, so the reduce
\* stores its message under the key of path[0] = undefined.
C21_FailureIsShownAtAField ==
    (~crashed /\ lastEvent.op = "handleSave" /\ ~lastEvent.saved)
    => \E e \in errors : e[1] \in RenderedFields

\* C22 (as stated): every drag the page can produce leaves the list of the
\* active tab with the same elements and length, the element of the source
\* index now at the destination index, and the other list as it was; a drag
\* without destination changes neither list.  In the special tab the
\* indices count the slots of a date group and the code splices the list of
\* groups with them.
C22_DragIsPermutation ==
    [][/\ \A src \in DragSources : \A dst \in DragDestinations :
             handleDragEnd(src, dst) =>
                IF activeTab = "regular"
                THEN /\ SameElements(regularSlots, regularSlots')
                     /\ MovedFromTo(regularSlots, regularSlots', src, dst)
                     /\ specialSlots' = specialSlots
                ELSE /\ SameElements(specialSlots, specialSlots')
                     /\ MovedFromTo(specialSlots, specialSlots', src, dst)
                     /\ regularSlots' = regularSlots
       /\ dragDropped =>
             (regularSlots' = regularSlots /\ specialSlots' = specialSlots)
      ]_vars

\* The same for the drags of the regular tab alone.
RegularDragIsPermutation ==
    [][\A src \in DragSources : \A dst \in DragDestinations :
          (handleDragEnd(src, dst) /\ activeTab = "regular") =>
             /\ SameElements(regularSlots, regularSlots')
             /\ MovedFromTo(regularSlots, regularSlots', src, dst)
             /\ specialSlots' = specialSlots
      ]_vars

\* C23 (as stated): after handleSave succeeded in edit mode, the list of the
\* active tab holds a slot with the id of the slot that was edited and with
\* the start, end and enabled values of the form that was submitted.  The
\* selection outlives a tab switch and a deletion, and the map of handleSave
\* then finds no slot with that id.
C23_EditedSlotIsInActiveList ==
    (/\ ~crashed /\ lastEvent.op = "handleSave" /\ lastEvent.saved
     /\ lastEvent.sel # Null)
    => \E s \in ShownSlots :
          /\ s.id = lastEvent.sel[1].id
          /\ s.start = lastEvent.form.start
          /\ s.end = lastEvent.form.end
          /\ s.enabled = lastEvent.form.enabled

\* Edit mode is the presence of a selected slot: isEditing and selectedSlot
\* are set and cleared together.
EditingIffSelected == isEditing <=> selectedSlot # Null

\* The same for a save in the tab the slot was selected in, the slot still
\* in its list.
EditedSlotIsInActiveListWhenStillShown ==
    [][(/\ handleSave /\ validateForm(formData).ok
        /\ isEditing /\ selectedSlot # Null
        /\ selectedSlot[1].id \in {s.id : s \in ShownSlots})
       => \E i \in 1..Len(slotsToCheck(activeTab, regularSlots', specialSlots')) :
             LET s == slotsToCheck(activeTab, regularSlots', specialSlots')[i]
             IN  /\ s.id = selectedSlot[1].id
                 /\ s.start = formData.start
                 /\ s.end = formData.end
                 /\ s.enabled = formData.enabled
      ]_vars

\* C24: a rejected save changes no data: when validateForm fails, handleSave
\* leaves regularSlots, specialSlots, selectedSlot, isEditing and formData
\* as they were, and no 'saved' notification is shown.
C24_RejectedSaveChangesNoData ==
    [][(/\ lastEvent'.op = "handleSave"
        /\ ~validateForm(formData).ok
        /\ handleSave)
       => /\ UNCHANGED <<regularSlots, specialSlots, selectedSlot, isEditing,
                         formData>>
          /\ ~lastEvent'.saved
      ]_vars

\* A slot is being edited, the form was given an end before its start, and
\* handleSave rejected it.
C24_Witness ==
    /\ lastEvent.op = "handleSave" /\ ~lastEvent.saved
    /\ isEditing /\ selectedSlot # Null
    /\ formData.start = "12:00" /\ formData.end = "09:00"
    /\ errors # {}

\* C25 (as stated): in every reachable state every entry of specialSlots
\* holds at least one slot.  A drag of the second slot of a date group
\* (C22) puts undefined into the list of groups.
C25_SpecialGroupsNonEmpty == GroupsNonEmpty(specialSlots)

\* Saving, deleting and every other handler but the drag keep the groups
\* non-empty.
GroupsNonEmptyUnlessDragged ==
    [][(/\ GroupsNonEmpty(specialSlots)
        /\ \A t \in pendingDeletes : GroupsNonEmpty(t.special)
        /\ ~\E src \in DragSources : \E dst \in DragDestinations :
               handleDragEnd(src, dst))
       => /\ GroupsNonEmpty(specialSlots')
          /\ \A t \in pendingDeletes' : GroupsNonEmpty(t.special)
      ]_vars

\* C26: handleSubmit shows the success notification or schedules the
\* navigation to /my-appointments only if name, email, phone and type pass
\* the form schema and both a date and a slot are selected.
C26_SuccessOnlyWhenValidAndSelected ==
    [][handleSubmit
       => ((bLastEvent'.toast = "booked" \/ bTimers' # bTimers)
             => /\ FormIssues(bFormData) = {}
                /\ bSelectedDate # Null
                /\ bSelectedSlot # Null)
      ]_vars

\* A booking was reported as successful and its navigation is pending.
C26_Witness ==
    /\ bLastEvent.op = "handleSubmit" /\ bLastEvent.toast = "booked"
    /\ bTimers > 0
    /\ FormIssues(bFormData) = {}
    /\ bSelectedDate # Null /\ bSelectedSlot # Null

----------------------------------------------------------------------------
(* Terms of the claims on the admin appointments page                      *)

\* ceil(n / d), without the division of the code.
CeilDiv(n, d) == CHOOSE k \in 0..n : k * d >= n /\ (k - 1) * d < n

SelectedIdsAreListed ==
    \A i \in 1..Len(selectedAppointments) :
        \E j \in 1..Len(appointments) :
            appointments[j].id = selectedAppointments[i]

PageInRange ==
    Len(filteredAppointments) > 0
    => /\ 1 <= currentPage
       /\ currentPage <= totalPages
       /\ totalPages = CeilDiv(Len(filteredAppointments), 10)

\* C27 (as stated): once the test sends started have all completed, history
\* holds one record more for each of them.  The timer callback puts its
\* record in front of the history of the render the button was clicked in,
\* so a send started while another is pending overwrites its record.
C27_EverySendAddsOneRecord ==
    sendTimers = <<>> => Len(history) = Len(mockHistory) + completed

\* A send whose timer fires on the history it was started with adds exactly
\* its record to the front.
SendAloneAddsOneRecord ==
    [][\A isSuccess \in BOOLEAN :
          (/\ sendTimers # <<>>
           /\ Head(sendTimers).history = history
           /\ testSendFires(isSuccess))
          => /\ Len(history') = Len(history) + 1
             /\ Tail(history') = history
             /\ Head(history').type = Head(sendTimers).rule.type
      ]_vars

\* C28 (as stated): in every reachable state every id in
\* selectedAppointments is the id of an appointment in the list.  The delete
\* button of a row removes the appointment and leaves the selection alone.
C28_SelectedIdsAreInTheList == SelectedIdsAreListed

\* Every step but the confirmed deletion of a single row keeps the selected
\* ids in the list.
SelectedIdsStayListedUnlessRowDeleted ==
    [][(/\ SelectedIdsAreListed
        /\ ~\E t \in adminToasts : t.kind = "rowDelete" /\ confirmToast(t))
       => SelectedIdsAreListed'
      ]_vars

\* C29: whenever filteredAppointments is not empty, 1 <= currentPage <=
\* totalPages = ceil(|filteredAppointments| / 10); every change of the
\* search term, the status filter or the appointment list makes the filter
\* effect run before anything else, and the effect resets currentPage to 1.
C29_CurrentPageInRange ==
    [][/\ PageInRange'
       /\ (<<searchTerm', statusFilter', appointments'>>
              # <<searchTerm, statusFilter, appointments>>) => effectPending'
       /\ (mounted /\ effectPending) => filterEffect
       /\ filterEffect => currentPage' = 1
      ]_vars

\* An appointment was deleted and the last of several pages is shown.
C29_Witness ==
    /\ mounted /\ ~effectPending
    /\ Len(appointments) < MockCount
    /\ totalPages > 1
    /\ currentPage = totalPages

\* C30: for every totalPages >= 1 and currentPage in 1..totalPages the
\* page-number buttons are min(5, totalPages) consecutive page numbers, all
\* within 1..totalPages, and currentPage is one of them.
C30_PageWindow ==
    gButtons # <<>>
    => /\ Len(gButtons) = (IF gTotalPages < 5 THEN gTotalPages ELSE 5)
       /\ \A k \in 1..(Len(gButtons) - 1) : gButtons[k + 1] = gButtons[k] + 1
       /\ \A k \in 1..Len(gButtons) : gButtons[k] \in 1..gTotalPages
       /\ \E k \in 1..Len(gButtons) : gButtons[k] = gCurrentPage

\* The window in the middle of a long list of pages.
C30_Witness ==
    /\ gTotalPages = 9 /\ gCurrentPage = 5
    /\ gButtons = <<3, 4, 5, 6, 7>>

=============================================================================
